---- MODULE Spec2Model ----
(***************************************************************************)
(* Tools/cases_generator/generators_common.py: the Emitter that re-emits   *)
(* one instruction body token by token while tracking the Storage of the   *)
(* operand stack and the reachability of the code.                          *)
(*                                                                          *)
(* The token stream is drawn one token at a time: every next()/peek() of   *)
(* the TokenIterator takes the next token of the body from a small          *)
(* alphabet (or finds the stream exhausted).  The call stack of            *)
(* _emit_block/_emit_if activations is the sequence `stack`.               *)
(***************************************************************************)
EXTENDS Integers, Sequences, FiniteSets, TLC

VARIABLES
    stack,       \* activations of _emit_block / _emit_if, innermost last
    look_ahead,  \* TokenIterator.look_ahead
    exhausted,   \* the underlying iterator has raised StopIteration
    status,      \* "start" | "running" | "done" | "error"
    err,         \* kind of exception that left emit_tokens ("" if none)
    result,      \* what emit_tokens returned, and what its _emit_block returned
    emitted,     \* what the last step wrote to self.out
    ev,          \* what the last step did (operation, and storage before it)
    ifDone,      \* the _emit_if calls that returned in the last step
    inst,        \* the `inst` argument: "None" | "NoFamily" | "Family"
    uop,         \* the CodeSection: [instruction_size]
    steps,       \* turns of the token loops and peeks taken so far
    iterator,    \* TokenIterator.iterator: the tokens of code.body not yet yielded
    calls,       \* the next() and peek() calls made on the TokenIterator itself
    nesting      \* history: the brace depth of all that was written to self.out
                 \* (depth) and the lowest depth it went through (low)

vars == <<stack, look_ahead, exhausted, status, err, result, emitted, ev, ifDone, inst, uop,
          steps, iterator, calls, nesting>>

-----------------------------------------------------------------------------
(* Bounds *)

\* longest body, counted in turns of the token loops and peeks of _emit_if
MaxSteps == 9
\* deepest value of the local `braces` of one _emit_block
MaxBraces == 2

-----------------------------------------------------------------------------
(* Tokens (lexer.Token: kind, text) *)

Tok(k, t) == [kind |-> k, text |-> t]
None == Tok("None", "")
Ident(t) == Tok("IDENTIFIER", t)
T_LBRACE == Tok("LBRACE", "{")
T_RBRACE == Tok("RBRACE", "}")
T_LPAREN == Tok("LPAREN", "(")
T_RPAREN == Tok("RPAREN", ")")
T_COMMA == Tok("COMMA", ",")
T_SEMI == Tok("SEMI", ";")
T_IF == Tok("IF", "if")
T_ELSE == Tok("ELSE", "else")
T_GOTO == Tok("GOTO", "goto")
T_NUMBER1 == Tok("NUMBER", "1")
T_NUMBER2 == Tok("NUMBER", "2")
T_EQUALS == Tok("EQUALS", "=")
T_AND == Tok("AND", "&&")

\* the instruction's stack effect: inputs a, b (b on top), output c
InputNames == <<"a", "b">>
OutputNames == <<"c">>
\* the names as sets
BothInputs == {"a", "b"}
SlotNames == {"a", "b", "c"}

\* the label table: name -> Label.spilled
LabelNames == {"error", "pop_1_error"}
labels == [n \in LabelNames |-> n = "error"]

-----------------------------------------------------------------------------
(* stack.Storage, modelled from the specification's data model (section 3)  *)

Slot(n, d, m) == [name |-> n, defined |-> d, in_memory |-> m]

InitialStorage ==
    [inputs  |-> [i \in 1..Len(InputNames) |-> Slot(InputNames[i], TRUE, TRUE)],
     outputs |-> [i \in 1..Len(OutputNames) |-> Slot(OutputNames[i], FALSE, FALSE)],
     offset  |-> 0,
     symbolic |-> FALSE,
     spilled |-> FALSE]

\* Storage.copy(): a deep snapshot
copy(s) == s

\* Storage.flush(out): every live slot is written to its memory location
flush(s) ==
    [s EXCEPT !.offset = 0,
              !.symbolic = FALSE,
              !.inputs  = [i \in DOMAIN s.inputs |->
                              [s.inputs[i] EXCEPT !.in_memory = @ \/ s.inputs[i].defined]],
              !.outputs = [i \in DOMAIN s.outputs |->
                              [s.outputs[i] EXCEPT !.in_memory = @ \/ s.outputs[i].defined]]]

\* Storage.save(out): spill; writes the save only when not yet spilled
save(s) ==
    IF s.spilled THEN [storage |-> s, out |-> <<>>]
    ELSE [storage |-> [flush(s) EXCEPT !.spilled = TRUE], out |-> <<"SAVE">>]

\* Storage.reload(out): un-spill; a StackError when nothing was spilled
reload(s) ==
    IF s.spilled
    THEN [err |-> "", storage |-> [s EXCEPT !.spilled = FALSE], out |-> <<"RELOAD">>]
    ELSE [err |-> "StackError", storage |-> s, out |-> <<>>]

\* Storage.clear_inputs(reason): the live-input bookkeeping is cleared; the
\* inputs are popped, which leaves the symbolic top below the stack pointer
clear_inputs(s) == [s EXCEPT !.inputs = <<>>, !.offset = @ - Len(s.inputs)]

\* storage.stack.peek_offset(): the symbolic top relative to the stack pointer
peek_offset(s) == s.offset

RECURSIVE CloseCode(_, _)
CloseCode(inputs, i) ==
    IF i = 0 THEN <<>>
    ELSE (IF inputs[i].defined THEN <<"CLOSE_" \o inputs[i].name>> ELSE <<>>)
         \o CloseCode(inputs, i - 1)

\* Storage.close_inputs(out): release every live input, top of stack first
close_inputs(s) ==
    [storage |-> [s EXCEPT !.inputs = [i \in DOMAIN s.inputs |->
                                          [s.inputs[i] EXCEPT !.defined = FALSE]]],
     out |-> CloseCode(s.inputs, Len(s.inputs))]

\* Storage.push_outputs(): the outputs become the live inputs of what follows
push_outputs(s) ==
    [s EXCEPT !.inputs = [i \in DOMAIN s.outputs |->
                             [s.outputs[i] EXCEPT !.defined = TRUE]],
              !.outputs = <<>>]

IsLive(v) == v.defined
LiveOnly(vs) == SelectSeq(vs, IsLive)

\* a merge that reconciles the slots and leaves the receiver spilled or not
\* as it was
merge_keeps_receiver(self, other) ==
    LET si == IF Len(self.inputs) = Len(other.inputs) THEN self.inputs
              ELSE LiveOnly(self.inputs)
        oi == IF Len(self.inputs) = Len(other.inputs) THEN other.inputs
              ELSE LiveOnly(other.inputs)
        named(xs, ys) == /\ Len(xs) = Len(ys)
                         /\ \A i \in DOMAIN xs : xs[i].name = ys[i].name
        both(xs, ys) == [i \in DOMAIN xs |->
                            [xs[i] EXCEPT !.defined = @ /\ ys[i].defined,
                                          !.in_memory = @ /\ ys[i].in_memory]]
    IN  IF /\ named(si, oi)
           /\ named(self.outputs, other.outputs)
           /\ \A i \in DOMAIN self.outputs :
                 self.outputs[i].defined = other.outputs[i].defined
        THEN [err |-> "",
              storage |-> [self EXCEPT !.inputs = both(si, oi),
                                       !.offset = IF Len(self.inputs) = Len(other.inputs)
                                                  THEN @ ELSE @ - (Len(self.inputs) - Len(si)),
                                       !.outputs = both(self.outputs, other.outputs)]]
        ELSE [err |-> "StackError", storage |-> self]

\* the compensating spill: the snapshot s is spilled when the other one is
spill_as(s, other) == IF other.spilled THEN save(s).storage ELSE s

\* Storage.merge(other, out): reconcile two branch snapshots into self.  A
\* slot is defined, or in memory, after the merge when it is on both paths;
\* an input released on one path only is released, an output stored on one
\* path only cannot be reconciled; a snapshot that is not spilled is spilled
\* when the other one is.
merge(self, other) ==
    LET a == spill_as(self, other)
        b == spill_as(other, self)
        si == IF Len(a.inputs) = Len(b.inputs) THEN a.inputs ELSE LiveOnly(a.inputs)
        oi == IF Len(a.inputs) = Len(b.inputs) THEN b.inputs ELSE LiveOnly(b.inputs)
        named(xs, ys) == /\ Len(xs) = Len(ys)
                         /\ \A i \in DOMAIN xs : xs[i].name = ys[i].name
        both(xs, ys) == [i \in DOMAIN xs |->
                            [xs[i] EXCEPT !.defined = @ /\ ys[i].defined,
                                          !.in_memory = @ /\ ys[i].in_memory]]
    IN  IF /\ named(si, oi)
           /\ named(a.outputs, b.outputs)
           /\ \A i \in DOMAIN a.outputs : a.outputs[i].defined = b.outputs[i].defined
        THEN [err |-> "",
              storage |-> [a EXCEPT !.inputs = both(si, oi),
                                    !.offset = IF Len(a.inputs) = Len(b.inputs)
                                               THEN @ ELSE @ - (Len(a.inputs) - Len(si)),
                                    !.outputs = both(a.outputs, b.outputs)]]
        ELSE [err |-> "StackError", storage |-> self]

-----------------------------------------------------------------------------
(* Activations *)

\* One activation record.  fn = "block": an _emit_block in its token loop;
\* fn = "if": an _emit_if, whose phase says which call it is waiting for.
\*   storage     the local `storage`
\*   if_storage  (_emit_if) the storage returned by the then-block
\*   reachable   the local `reachable`
\*   braces      (_emit_block) the local `braces`
\*   reload      (_emit_block) the local `reload` names a token not yet met
\*   first       (_emit_block) emit_first_brace
\*   pre         history: the storage this activation was called with
\*   gap         history: since the escaping call that `reload` belongs to
\*               began, a token was processed with the storage not spilled
\*   seen        history: the statements this block has processed
\*               (_emit_if: those of its then-block)
Frame(fn, phase, st, first) ==
    [fn |-> fn, phase |-> phase, storage |-> st, if_storage |-> InitialStorage,
     reachable |-> TRUE, braces |-> IF fn = "block" THEN 1 ELSE 0,
     reload |-> FALSE, first |-> first, pre |-> st, seen |-> {}, gap |-> FALSE]

Depth == Len(stack)
Top == stack[Depth]
Push(stk, f) == Append(stk, f)
Pop(stk) == SubSeq(stk, 1, Len(stk) - 1)

\* history of one step: the statement (op), the escaping-call entry (esc)
\* and reload match (rel) of its first token, whether that token is an output
\* store, the spilled flag the handler found, and the spilled flag (before),
\* `reachable`, `reload` (pending) and gap of the activation f when the step
\* began
Ev(op, esc, rel, store, spilled, f) ==
    [op |-> op, esc |-> esc, rel |-> rel, store |-> store, spilled |-> spilled,
     before |-> f.storage.spilled, reachable |-> f.reachable, pending |-> f.reload,
     gap |-> f.gap]
NoEv == Ev("", "none", FALSE, FALSE, FALSE, Frame("", "", InitialStorage, FALSE))
\* emit_tokens has not returned; once it has, `result` holds what it returns
\* (ret) and, as history, what its _emit_block returned (block)
NoResult ==
    [ret |-> [reachable |-> FALSE, storage |-> InitialStorage, pushed |-> FALSE],
     block |-> [reachable |-> FALSE, storage |-> InitialStorage, seen |-> {}]]

-----------------------------------------------------------------------------
(* Pure helpers of the module *)

\* no token counts as the constant true
never_true(tkn) == FALSE

\* always_true(tkn)
always_true(tkn) ==
    IF tkn = None THEN FALSE ELSE tkn.text \in {"true", "1"}

NON_ESCAPING_DEALLOCS ==
    {"_PyFloat_ExactDealloc", "_PyLong_ExactDealloc", "_PyUnicode_ExactDealloc"}

Texts(ts) == [i \in DOMAIN ts |-> ts[i].text]

\* the text of a statement: its tokens joined by blanks
RECURSIVE Join(_)
Join(texts) ==
    IF Len(texts) = 0 THEN ""
    ELSE IF Len(texts) = 1 THEN texts[1]
    ELSE texts[1] \o " " \o Join(Tail(texts))
Stmt(t, args) == Join(<<t.text>> \o Texts(args))

\* emit_to(out, tkn_iter, end) over the tokens ts[i..]: the index of the
\* token that ends the scan, or 0 when the stream ends first
RECURSIVE emit_to(_, _, _, _)
emit_to(ts, i, end, parens) ==
    IF i > Len(ts) THEN 0
    ELSE IF ts[i].kind = end /\ parens = 0 THEN i
    ELSE emit_to(ts, i + 1, end,
                 IF ts[i].kind = "LPAREN" THEN parens + 1
                 ELSE IF ts[i].kind = "RPAREN" THEN parens - 1 ELSE parens)

\* Emitter.stackref_kill(name, storage, escapes)
RECURSIVE stackref_kill_from(_, _, _, _, _)
stackref_kill_from(inputs, i, name, escapes, live) ==
    IF i = 0 THEN [err |-> "", inputs |-> inputs]
    ELSE IF inputs[i].name = name
         THEN IF live /\ escapes
              THEN [err |-> "analysis_error", inputs |-> inputs]
              ELSE [err |-> "", inputs |-> [inputs EXCEPT ![i].defined = FALSE]]
         ELSE stackref_kill_from(inputs, i - 1, name, escapes,
                                 live \/ inputs[i].defined)

stackref_kill(name, storage, escapes) ==
    LET r == stackref_kill_from(storage.inputs, Len(storage.inputs), name, escapes, FALSE)
    IN  [err |-> r.err, storage |-> [storage EXCEPT !.inputs = r.inputs]]

\* an emit_save that saves nothing
emit_save_nothing(storage) == [storage |-> storage, out |-> <<>>]

\* Emitter.emit_save / Emitter.emit_reload
emit_save(storage) == save(storage)
emit_reload(storage) == reload(storage)

\* a goto_error that flushes the storage itself
goto_error_flushes_storage(offset, label, storage) ==
    IF offset > 0
    THEN [storage |-> storage,
          out |-> <<"JUMP_TO_LABEL(pop_" \o ToString(offset) \o "_" \o label \o ")">>]
    ELSE IF offset < 0
    THEN [storage |-> flush(storage),
          out |-> <<"FLUSH", "JUMP_TO_LABEL(" \o label \o ")">>]
    ELSE [storage |-> storage, out |-> <<"JUMP_TO_LABEL(" \o label \o ")">>]

\* Emitter.goto_error(offset, label, storage): the text of the jump (out),
\* after the flush of a copy of the storage when the offset is negative, and
\* the storage as the call leaves it
goto_error(offset, label, storage) ==
    IF offset > 0
    THEN [storage |-> storage,
          out |-> <<"JUMP_TO_LABEL(pop_" \o ToString(offset) \o "_" \o label \o ")">>]
    ELSE IF offset < 0
    THEN [storage |-> storage,
          out |-> <<"FLUSH", "JUMP_TO_LABEL(" \o label \o ")">>]
    ELSE [storage |-> storage, out |-> <<"JUMP_TO_LABEL(" \o label \o ")">>]

-----------------------------------------------------------------------------
(* The replacement functions.  Each takes the tokens `args` that follow the
   directive in the stream (a stream that ends early is a shorter `args`) and
   the storage, and yields
     err        "" or the exception raised
     storage    the storage afterwards
     reachable  the value returned
     out        what was written
     used       how many tokens of args were taken                           *)

H(e, st, r, out, used) ==
    [err |-> e, storage |-> st, reachable |-> r, out |-> out, used |-> used]

\* the three next(tkn_iter) of the directives written NAME();
next3(args) == IF Len(args) < 3 THEN "StopIteration" ELSE ""

\* Emitter.dispatch
dispatch(tkn, storage) ==
    IF storage.spilled THEN H("analysis_error", storage, TRUE, <<>>, 0)
    ELSE H("", storage, FALSE, <<tkn.text>>, 0)

\* Emitter.deopt_if (and exit_if, the same function)
deopt_if(args, storage, i) ==
    LET n == Len(args)
        first_tkn == IF n >= 2 THEN args[2] ELSE None
        e == emit_to(args, 2, "RPAREN", 0)
        cond == IF e = 0 THEN <<>> ELSE Texts(SubSeq(args, 2, e - 1))
    IN  IF n = 0 THEN H("StopIteration", storage, TRUE, <<"if (">>, 0)
        ELSE IF args[1].kind # "LPAREN" THEN H("AssertionError", storage, TRUE, <<"if (">>, 1)
        ELSE IF e = 0
        THEN H(IF n = 1 THEN "UnboundLocalError" ELSE "analysis_error",
               storage, TRUE, <<"if (">>, n)
        ELSE IF n < e + 1 THEN H("StopIteration", storage, TRUE, <<"if (">>, n)
        ELSE IF i # "Family" THEN H("AssertionError", storage, TRUE, <<"if (">>, e + 1)
        ELSE H("", storage, ~always_true(first_tkn),
               <<"if (">> \o cond \o <<") {", "JUMP_TO_PREDICTED", "}">>, e + 1)

\* Emitter.error_if
error_if(args, storage) ==
    LET n == Len(args)
        first_tkn == IF n >= 2 THEN args[2] ELSE None
        unconditional == always_true(first_tkn)
        e == emit_to(args, 2, "COMMA", 0)
        lbl == IF unconditional THEN 4 ELSE e + 1
        cleared == clear_inputs(storage)
        \* -int(c_offset), and -1 when c_offset is not an integer (ValueError)
        offset == IF cleared.symbolic THEN -1 ELSE 0 - peek_offset(cleared)
        jump == goto_error(offset, args[lbl].text, cleared)
        head == IF unconditional THEN <<>>
                ELSE <<"if ", "(">> \o Texts(SubSeq(args, 2, e - 1)) \o <<") {">>
    IN  IF n = 0 THEN H("StopIteration", storage, TRUE, <<>>, 0)
        ELSE IF args[1].kind # "LPAREN" THEN H("AssertionError", storage, TRUE, <<>>, 1)
        ELSE IF unconditional /\ n < 3 THEN H("StopIteration", storage, TRUE, <<>>, n)
        ELSE IF unconditional /\ args[3].kind # "COMMA"
        THEN H("analysis_error", storage, TRUE, <<>>, 3)
        ELSE IF ~unconditional /\ e = 0
        THEN H(IF n = 1 THEN "UnboundLocalError" ELSE "analysis_error",
               storage, TRUE, <<"if ", "(">>, n)
        ELSE IF n < lbl + 2 THEN H("StopIteration", storage, TRUE, head, n)
        ELSE H("", jump.storage, ~unconditional,
               head \o jump.out \o (IF unconditional THEN <<>> ELSE <<"}">>),
               lbl + 2)

\* Emitter.error_no_pop
error_no_pop(args, storage) ==
    IF next3(args) # "" THEN H(next3(args), storage, TRUE, <<>>, Len(args))
    ELSE H("", goto_error(0, "error", storage).storage, FALSE,
           goto_error(0, "error", storage).out, 3)

\* a decref_inputs that writes the releases and leaves the inputs live
decref_inputs_keeps_live(args, storage) ==
    IF next3(args) # "" THEN H(next3(args), storage, TRUE, <<>>, Len(args))
    ELSE H("", storage, TRUE, close_inputs(storage).out, 3)

\* Emitter.decref_inputs
decref_inputs(args, storage) ==
    IF next3(args) # "" THEN H(next3(args), storage, TRUE, <<>>, Len(args))
    ELSE H("", close_inputs(storage).storage, TRUE, close_inputs(storage).out, 3)

\* Emitter.kill_inputs
kill_inputs(args, storage) ==
    IF next3(args) # "" THEN H(next3(args), storage, TRUE, <<>>, Len(args))
    ELSE H("", [storage EXCEPT !.inputs = [i \in DOMAIN storage.inputs |->
                                  [storage.inputs[i] EXCEPT !.defined = FALSE]]],
           TRUE, <<>>, 3)

\* Emitter.kill
kill(args, storage) ==
    IF Len(args) < 4 THEN H("StopIteration", storage, TRUE, <<>>, Len(args))
    ELSE LET name == args[2].text
             hit == {i \in DOMAIN storage.inputs : storage.inputs[i].name = name}
         IN  IF hit = {} THEN H("analysis_error", storage, TRUE, <<>>, 4)
             ELSE H("", [storage EXCEPT !.inputs =
                            [i \in DOMAIN storage.inputs |->
                                IF i \in hit
                                THEN [storage.inputs[i] EXCEPT !.defined = FALSE]
                                ELSE storage.inputs[i]]],
                    TRUE, <<>>, 4)

\* the tail shared by stackref_close_specialized and stackref_steal when the
\* first argument is not an identifier: emit_to the closing parenthesis
rest_of_call(tkn, args, from, storage) ==
    LET e == emit_to(args, from, "RPAREN", 0)
        n == Len(args)
        pre == <<tkn.text>> \o Texts(SubSeq(args, 1, from - 1))
    IN  IF e = 0
        THEN H(IF n = from - 1 THEN "UnboundLocalError" ELSE "analysis_error",
               storage, TRUE, pre, n)
        ELSE H("", storage, TRUE, pre \o Texts(SubSeq(args, from, e)), e)

\* Emitter.stackref_close_specialized
stackref_close_specialized(tkn, args, storage) ==
    LET n == Len(args)
        escapes == args[4].text \notin NON_ESCAPING_DEALLOCS
        k == stackref_kill(args[2].text, storage, escapes)
    IN  IF n = 0 THEN H("StopIteration", storage, TRUE, <<tkn.text>>, 0)
        ELSE IF args[1].kind # "LPAREN"
        THEN H("AssertionError", storage, TRUE, <<tkn.text>>, 1)
        ELSE IF n < 3 THEN H("StopIteration", storage, TRUE, <<tkn.text>>, n)
        ELSE IF args[3].kind # "COMMA" THEN H("analysis_error", storage, TRUE, <<tkn.text>>, 3)
        ELSE IF n < 4 THEN H("StopIteration", storage, TRUE, <<tkn.text>>, n)
        ELSE IF args[4].kind # "IDENTIFIER"
        THEN H("analysis_error", storage, TRUE, <<tkn.text>>, 4)
        ELSE IF args[2].kind = "IDENTIFIER"
        THEN H(k.err, k.storage, TRUE, <<tkn.text>> \o Texts(SubSeq(args, 1, 4)), 4)
        ELSE rest_of_call(tkn, args, 5, storage)

\* Emitter.stackref_steal
stackref_steal(tkn, args, storage) ==
    LET n == Len(args)
        k == stackref_kill(args[2].text, storage, FALSE)
    IN  IF n = 0 THEN H("StopIteration", storage, TRUE, <<tkn.text>>, 0)
        ELSE IF args[1].kind # "LPAREN"
        THEN H("AssertionError", storage, TRUE, <<tkn.text>>, 1)
        ELSE IF n < 2 THEN H("StopIteration", storage, TRUE, <<tkn.text>>, n)
        ELSE IF args[2].kind = "IDENTIFIER"
        THEN H(k.err, k.storage, TRUE, <<tkn.text>> \o Texts(SubSeq(args, 1, 2)), 2)
        ELSE rest_of_call(tkn, args, 3, storage)

\* Emitter.sync_sp
sync_sp(args, storage) ==
    IF next3(args) # "" THEN H(next3(args), storage, TRUE, <<>>, Len(args))
    ELSE H("", flush(clear_inputs(storage)), TRUE, <<"FLUSH">>, 3)

\* Emitter.save_stack
save_stack(args, storage) ==
    IF next3(args) # "" THEN H(next3(args), storage, TRUE, <<>>, Len(args))
    ELSE H("", emit_save(storage).storage, TRUE, emit_save(storage).out, 3)

\* Emitter.reload_stack (the StackError of reload is re-raised by _emit_block
\* as an analysis_error)
reload_stack(args, storage) ==
    IF next3(args) # "" THEN H(next3(args), storage, TRUE, <<>>, Len(args))
    ELSE LET r == emit_reload(storage)
         IN  H(IF r.err # "" THEN "analysis_error" ELSE "", r.storage, TRUE, r.out, 3)

\* Emitter.instruction_size
instruction_size(tkn, storage, u) ==
    IF u.instruction_size = 0 THEN H("analysis_error", storage, TRUE, <<>>, 0)
    ELSE H("", storage, TRUE, <<ToString(u.instruction_size)>>, 0)

\* a stack_pointer that is echoed whatever the storage
stack_pointer_unchecked(tkn, storage) == H("", storage, TRUE, <<tkn.text>>, 0)

\* Emitter.stack_pointer
stack_pointer(tkn, storage) ==
    IF storage.spilled THEN H("analysis_error", storage, TRUE, <<>>, 0)
    ELSE H("", storage, TRUE, <<tkn.text>>, 0)

\* a goto_label that lets a spilled storage jump to any label
goto_label_unchecked(args, storage) ==
    LET label == args[1].text
        s == emit_save(storage)
    IN  IF Len(args) = 0 THEN H("StopIteration", storage, TRUE, <<>>, 0)
        ELSE IF label \notin DOMAIN labels THEN H("analysis_error", storage, TRUE, <<>>, 1)
        ELSE IF labels[label] /\ ~storage.spilled
        THEN H("", s.storage, FALSE, s.out \o <<"JUMP_TO_LABEL(" \o label \o ")">>, 1)
        ELSE H("", storage, FALSE, <<"JUMP_TO_LABEL(" \o label \o ")">>, 1)

\* Emitter.goto_label, with the `reachable = False` of its caller
goto_label(args, storage) ==
    LET label == args[1].text
        s == emit_save(storage)
    IN  IF Len(args) = 0 THEN H("StopIteration", storage, TRUE, <<>>, 0)
        ELSE IF label \notin DOMAIN labels THEN H("analysis_error", storage, TRUE, <<>>, 1)
        ELSE IF labels[label]
        THEN IF ~storage.spilled
             THEN H("", s.storage, FALSE, s.out \o <<"JUMP_TO_LABEL(" \o label \o ")">>, 1)
             ELSE H("", storage, FALSE, <<"JUMP_TO_LABEL(" \o label \o ")">>, 1)
        ELSE IF storage.spilled THEN H("analysis_error", storage, TRUE, <<>>, 1)
        ELSE H("", storage, FALSE, <<"JUMP_TO_LABEL(" \o label \o ")">>, 1)

-----------------------------------------------------------------------------
(* The token stream: what the iterator may yield next *)

Prefixes(S) == UNION {{SubSeq(t, 1, k) : k \in 0..Len(t)} : t \in S}

ReplacerNames ==
    {"EXIT_IF", "DEOPT_IF", "ERROR_IF", "ERROR_NO_POP", "DECREF_INPUTS", "DEAD",
     "INPUTS_DEAD", "SYNC_SP", "SAVE_STACK", "RELOAD_STACK",
     "PyStackRef_CLOSE_SPECIALIZED", "PyStackRef_AsPyObjectSteal", "DISPATCH",
     "INSTRUCTION_SIZE", "stack_pointer"}

\* identifiers that are not replaced
PlainNames == {"x", "c", "DISPATCH_GOTO"}
\* tokens of other kinds that the block loop echoes
OtherTokens == {T_SEMI, T_RPAREN, T_EQUALS}

BlockTokens ==
    {T_LBRACE, T_RBRACE, T_GOTO, T_IF} \cup OtherTokens
    \cup {Ident(n) : n \in ReplacerNames \cup PlainNames}

Args3 == Prefixes({<<T_LPAREN, T_RPAREN, T_SEMI>>})

Conds == {<<Ident("true")>>, <<T_NUMBER1>>, <<Ident("x")>>,
          <<Ident("true"), T_AND, Ident("x")>>}

DeoptArgs ==
    Prefixes({<<T_LPAREN>> \o c \o <<T_RPAREN, T_SEMI>> : c \in Conds \cup {<<>>}})
    \cup {<<T_SEMI>>}

ErrorIfArgs ==
    Prefixes({<<T_LPAREN>> \o c \o <<T_COMMA, Ident("error"), T_RPAREN, T_SEMI>> :
                 c \in Conds})
    \cup {<<T_SEMI>>}

KillArgs ==
    Prefixes({<<T_LPAREN, Ident(n), T_RPAREN, T_SEMI>> : n \in {"a", "b", "c"}})

Deallocs == {Ident("_PyFloat_ExactDealloc"), Ident("dealloc"), T_NUMBER1}

CloseArgs ==
    Prefixes({<<T_LPAREN, Ident(n), T_COMMA, d>> : n \in {"a", "b"}, d \in Deallocs})
    \cup Prefixes({<<T_LPAREN, T_NUMBER1, T_COMMA, Ident("dealloc"), T_RPAREN>>})
    \cup {<<T_SEMI>>, <<T_LPAREN, Ident("a"), T_SEMI>>}

StealArgs ==
    Prefixes({<<T_LPAREN, Ident(n)>> : n \in {"a", "b"}})
    \cup Prefixes({<<T_LPAREN, T_NUMBER1, T_RPAREN>>})
    \cup {<<T_SEMI>>}

GotoArgs == {<<>>} \cup {<<Ident(l)>> : l \in LabelNames \cup {"missing"}}

IfArgs ==
    Prefixes({<<T_LPAREN, T_LPAREN, Ident("x"), T_RPAREN, T_RPAREN, T_LBRACE>>})
    \cup {<<T_SEMI>>, <<T_LPAREN, Ident("x"), T_RPAREN, T_SEMI>>}

\* the escaping_calls entry of the token at hand: none, a call that kills no
\* slot, or a call that kills the named slot
Escapes == {"none", "call", "kill_a", "kill_b"}
NoEscapes == {"none"}
Kills(esc) == IF esc = "kill_a" THEN "a" ELSE "b"

-----------------------------------------------------------------------------
\* a bookkeeping that never reloads at the token `reload` names
escaping_call_no_reload(storage, rl, esc, rel) ==
    LET k == stackref_kill(Kills(esc), storage, TRUE)
        s == emit_save(k.storage)
        s0 == emit_save(storage)
    IN  IF esc \in {"kill_a", "kill_b"}
        THEN IF k.err # ""
             THEN [err |-> "analysis_error", storage |-> storage, reload |-> rl, out |-> <<>>]
             ELSE [err |-> "", storage |-> s.storage, reload |-> TRUE, out |-> s.out]
        ELSE IF esc = "call"
        THEN [err |-> "", storage |-> s0.storage, reload |-> TRUE, out |-> s0.out]
        ELSE [err |-> "", storage |-> storage, reload |-> rl /\ ~rel, out |-> <<>>]

\* a bookkeeping that reloads at the token `reload` names whatever call the
\* token starts, and then saves again
escaping_call_reloads_first(storage, rl, esc, rel) ==
    LET r == IF rel THEN emit_reload(storage)
             ELSE [err |-> "", storage |-> storage, out |-> <<>>]
        k == stackref_kill(Kills(esc), r.storage, TRUE)
        s == emit_save(k.storage)
        s0 == emit_save(r.storage)
    IN  IF r.err # ""
        THEN [err |-> "analysis_error", storage |-> storage, reload |-> rl, out |-> r.out]
        ELSE IF esc \in {"kill_a", "kill_b"}
        THEN IF k.err # ""
             THEN [err |-> "analysis_error", storage |-> storage, reload |-> rl, out |-> r.out]
             ELSE [err |-> "", storage |-> s.storage, reload |-> TRUE, out |-> r.out \o s.out]
        ELSE IF esc = "call"
        THEN [err |-> "", storage |-> s0.storage, reload |-> TRUE, out |-> r.out \o s0.out]
        ELSE [err |-> "", storage |-> r.storage, reload |-> rl /\ ~rel, out |-> r.out]

(* _emit_block, lines 547-558: the escaping-call bookkeeping done for every
   token of the loop.  esc is the token's entry in escaping_calls, rel says
   that the token is the one `reload` names.                                 *)

escaping_call(storage, rl, esc, rel) ==
    LET r == IF rel THEN emit_reload(storage)
             ELSE [err |-> "", storage |-> storage, out |-> <<>>]
        k == stackref_kill(Kills(esc), r.storage, TRUE)
        s == emit_save(k.storage)
        s0 == emit_save(storage)
    IN  IF esc \in {"kill_a", "kill_b"}
        THEN IF r.err # "" \/ k.err # ""
             THEN [err |-> "analysis_error", storage |-> storage, reload |-> rl, out |-> r.out]
             ELSE [err |-> "", storage |-> s.storage, reload |-> TRUE, out |-> r.out \o s.out]
        ELSE IF esc = "call"
        THEN IF ~rel
             THEN [err |-> "", storage |-> s0.storage, reload |-> TRUE, out |-> s0.out]
             ELSE [err |-> "", storage |-> storage, reload |-> TRUE, out |-> <<>>]
        ELSE IF rel
        THEN [err |-> IF r.err # "" THEN "analysis_error" ELSE "",
              storage |-> r.storage, reload |-> FALSE, out |-> r.out]
        ELSE [err |-> "", storage |-> storage, reload |-> rl, out |-> <<>>]

\* history: the `gap` of the block f once a token has been through the
\* bookkeeping with result p
next_gap(f, p, esc, rel) ==
    IF esc # "none" \/ rel THEN FALSE
    ELSE f.gap \/ (f.reload /\ ~p.storage.spilled)

-----------------------------------------------------------------------------
(* _emit_if, the joins at its end *)

J(e, r, st, merged) == [err |-> e, reachable |-> r, storage |-> st, merged |-> merged]

\* a join that keeps the then-storage when the then-branch is unreachable
if_else_join_keeps_then(reachable, if_storage, else_reachable, else_storage) ==
    IF ~reachable THEN J("", else_reachable, if_storage, "")
    ELSE IF ~else_reachable THEN J("", TRUE, if_storage, "")
    ELSE LET m == merge(else_storage, if_storage)
         IN  J(IF m.err # "" THEN "analysis_error" ELSE "", reachable, m.storage,
               "else_storage.merge(if_storage)")

\* lines 490-503: the then-branch and the else-branch have both been emitted
if_else_join(reachable, if_storage, else_reachable, else_storage) ==
    IF ~reachable THEN J("", else_reachable, else_storage, "")
    ELSE IF ~else_reachable THEN J("", TRUE, if_storage, "")
    ELSE LET m == merge(else_storage, if_storage)
         IN  J(IF m.err # "" THEN "analysis_error" ELSE "", reachable, m.storage,
               "else_storage.merge(if_storage)")

\* a join that keeps the then-storage of an unreachable then-branch
if_only_join_keeps_then(reachable, if_storage, storage) ==
    IF reachable
    THEN LET m == merge(if_storage, storage)
         IN  J(IF m.err # "" THEN "analysis_error" ELSE "", reachable, m.storage,
               "if_storage.merge(storage)")
    ELSE J("", TRUE, if_storage, "")

\* lines 504-513: there is no else
if_only_join(reachable, if_storage, storage) ==
    IF reachable
    THEN LET m == merge(if_storage, storage)
         IN  J(IF m.err # "" THEN "analysis_error" ELSE "", reachable, m.storage,
               "if_storage.merge(storage)")
    ELSE J("", TRUE, storage, "")

\* history: one returned _emit_if
IfRecord(f, has_else, else_reachable, else_storage, else_seen, j) ==
    [has_else |-> has_else,
     then_reachable |-> f.reachable, then_storage |-> f.if_storage, then_seen |-> f.seen,
     else_reachable |-> else_reachable, else_storage |-> else_storage,
     else_seen |-> else_seen, pre |-> f.pre,
     reachable |-> j.reachable, storage |-> j.storage, merged |-> j.merged]

\* a block that takes the reachability of the if statement it has emitted
after_if_overwrites(reachable, if_reachable) == if_reachable

\* lines 590-591: `reachable` of a block once an if statement has returned
after_if(reachable, if_reachable) == IF reachable THEN if_reachable ELSE reachable

\* a return that does not close the scoping brace of an else-if
RECURSIVE return_if_unscoped(_, _, _, _, _)
return_if_unscoped(stk, r, st, out, log) ==
    LET f == stk[Len(stk)]
        j == if_else_join(f.reachable, f.if_storage, r, st)
    IN  IF f.fn = "block"
        THEN [err |-> "",
              stack |-> [stk EXCEPT ![Len(stk)] =
                            [f EXCEPT !.storage = st,
                                      !.reachable = after_if(@, r)]],
              out |-> out \o <<"}">>, log |-> log]
        ELSE IF j.err # ""
        THEN [err |-> j.err, stack |-> stk, out |-> out, log |-> log]
        ELSE return_if_unscoped(Pop(stk), j.reachable, j.storage, out,
                                Append(log, IfRecord(f, TRUE, r, st, {}, j)))

\* An _emit_if returns (r, rbrace, st) to the activation on top of stk: to a
\* block (lines 589-592), or to the _emit_if whose else-if it is (lines
\* 485-503), which then returns in turn.
RECURSIVE return_if(_, _, _, _, _)
return_if(stk, r, st, out, log) ==
    LET f == stk[Len(stk)]
        j == if_else_join(f.reachable, f.if_storage, r, st)
    IN  IF f.fn = "block"
        THEN [err |-> "",
              stack |-> [stk EXCEPT ![Len(stk)] =
                            [f EXCEPT !.storage = st,
                                      !.reachable = after_if(@, r)]],
              out |-> out \o <<"}">>, log |-> log]
        ELSE IF j.err # ""
        THEN [err |-> j.err, stack |-> stk, out |-> out \o <<"}">>, log |-> log]
        ELSE return_if(Pop(stk), j.reachable, j.storage, out \o <<"}">>,
                       Append(log, IfRecord(f, TRUE, r, st, {}, j)))

-----------------------------------------------------------------------------
(* TokenIterator *)

\* the iterator of a body that is not given in advance: its tokens are drawn
\* one at a time as they are asked for
Drawn == [drawn |-> TRUE, tokens |-> <<>>]
\* iter(tkns): the iterator of a body given in advance
iter(tkns) == [drawn |-> FALSE, tokens |-> tkns]

R(e, res, la, it) == [err |-> e, res |-> res, look_ahead |-> la, iterator |-> it]

\* a peek that hands out the next token without keeping it
TokenIterator_peek_uncached(la, it) ==
    IF la = None
    THEN IF it = <<>> THEN R("", None, la, it) ELSE R("", Head(it), la, Tail(it))
    ELSE R("", la, la, it)

\* TokenIterator.peek
TokenIterator_peek(la, it) ==
    IF la = None
    THEN IF it = <<>> THEN R("", None, la, it) ELSE R("", Head(it), Head(it), Tail(it))
    ELSE R("", la, la, it)

\* TokenIterator.__next__
TokenIterator_next(la, it) ==
    IF la = None
    THEN IF it = <<>> THEN R("StopIteration", None, la, it) ELSE R("", Head(it), la, Tail(it))
    ELSE R("", la, None, it)

\* n successive next(tkn_iter): the tokens they return (got)
RECURSIVE take(_, _, _)
take(la, it, n) ==
    IF n = 0 THEN [err |-> "", got |-> <<>>, look_ahead |-> la, iterator |-> it]
    ELSE LET r == TokenIterator_next(la, it)
             m == take(r.look_ahead, r.iterator, n - 1)
         IN  IF r.err # ""
             THEN [err |-> r.err, got |-> <<>>, look_ahead |-> r.look_ahead,
                   iterator |-> r.iterator]
             ELSE [m EXCEPT !.got = <<r.res>> \o @]

\* a body that is drawn token by token is cut off after MaxSteps turns
Bounded == iterator.drawn => steps < MaxSteps

\* the next(tkn_iter) calls of one step return the tokens ts
Stream(ts) ==
    IF iterator.drawn THEN UNCHANGED iterator
    ELSE LET r == take(look_ahead, iterator.tokens, Len(ts))
         IN  r.err = "" /\ r.got = ts /\ iterator' = iter(r.iterator)

\* tkn_iter.peek() returns t (None at the end of the body)
Peeked(t) ==
    IF iterator.drawn THEN UNCHANGED iterator
    ELSE LET r == TokenIterator_peek(look_ahead, iterator.tokens)
         IN  r.res = t /\ iterator' = iter(r.iterator)

\* the exceptions a function raises when the body ends under it
EndOfBody == {"StopIteration", "UnboundLocalError"}
\* a function that met the end of its tokens met the end of the body
Whole(e) == (~iterator.drawn /\ e \in EndOfBody) => iterator'.tokens = <<>>

-----------------------------------------------------------------------------
(* Initial state: an Emitter and the arguments of one emit_tokens call *)

\* the (inst, uop) arguments: an instruction of a family whose size is
\* known, an instruction outside any family, and a bare uop (instruction_size
\* 0 stands for None)
Sections ==
    {<<"Family", [instruction_size |-> 1]>>,
     <<"NoFamily", [instruction_size |-> 0]>>,
     <<"None", [instruction_size |-> 0]>>}

InitOf(sections) ==
    /\ stack = <<>>
    /\ look_ahead = None
    /\ exhausted = FALSE
    /\ status = "start"
    /\ err = ""
    /\ result = NoResult
    /\ emitted = <<>>
    /\ ev = NoEv
    /\ ifDone = <<>>
    /\ steps = 0
    /\ \E sec \in sections : inst = sec[1] /\ uop = sec[2]
    /\ iterator = Drawn
    /\ calls = <<>>
    /\ nesting = [depth |-> 0, low |-> 0]

Init == InitOf(Sections)

\* emit_tokens is called for an instruction of a family whose code.body is
\* one of bodies (line 605: tkn_iter = TokenIterator(code.body))
InitBody(bodies) ==
    /\ stack = <<>>
    /\ look_ahead = None
    /\ exhausted = FALSE
    /\ status = "start"
    /\ err = ""
    /\ result = NoResult
    /\ emitted = <<>>
    /\ ev = NoEv
    /\ ifDone = <<>>
    /\ steps = 0
    /\ inst = "Family"
    /\ \E b \in bodies : uop = [instruction_size |-> 1, body |-> b] /\ iterator = iter(b)
    /\ calls = <<>>
    /\ nesting = [depth |-> 0, low |-> 0]

\* the tokens a body can start with, and those that can follow an `else`
FirstTokens == {T_LBRACE, T_SEMI, None}
AfterElse == {T_IF, T_LBRACE}
AfterElseAny == {T_IF, T_LBRACE, T_SEMI, None}
\* the two names Emitter._replacers binds to deopt_if and exit_if
DeoptNames == {"DEOPT_IF", "EXIT_IF"}

\* history: the braces of one written text: what they add to the depth of
\* the output (net) and the lowest depth inside the text, from 0 (low)
TextNet(text) ==
    LET opens == {i \in 1..Len(text) : SubSeq(text, i, i) = "{"}
        closes == {i \in 1..Len(text) : SubSeq(text, i, i) = "}"}
        at(k) == Cardinality({i \in opens : i < k}) - Cardinality({i \in closes : i <= k})
        lows == {0} \cup {at(k) : k \in closes}
    IN  [net |-> Cardinality(opens) - Cardinality(closes),
         low |-> CHOOSE m \in lows : \A x \in lows : m <= x]
RECURSIVE SumTo(_, _)
SumTo(t, k) == IF k = 0 THEN 0 ELSE t[k].net + SumTo(t, k - 1)
\* history: `nesting` once the texts of out are written
Written(n, out) ==
    LET t == [i \in 1..Len(out) |-> TextNet(out[i])]
        lows == {n.low} \cup {n.depth + SumTo(t, k - 1) + t[k].low : k \in 1..Len(out)}
    IN  [depth |-> n.depth + SumTo(t, Len(out)),
         low |-> CHOOSE m \in lows : \A x \in lows : m <= x]

\* an exception leaves emit_tokens: the activations are unwound
Raise(kind, out, e) ==
    /\ status' = "error"
    /\ err' = kind
    /\ stack' = <<>>
    /\ look_ahead' = None
    /\ emitted' = out
    /\ nesting' = Written(nesting, out)
    /\ ev' = e
    /\ ifDone' = <<>>
    /\ steps' = steps + 1
    /\ UNCHANGED <<exhausted, result, inst, uop, calls>>

\* the step goes on with the activations stk
Continue(stk, la, out, e, log) ==
    /\ status' = "running"
    /\ stack' = stk
    /\ look_ahead' = la
    /\ emitted' = out
    /\ nesting' = Written(nesting, out)
    /\ ev' = e
    /\ ifDone' = log
    /\ steps' = steps + 1
    /\ UNCHANGED <<err, result, inst, uop, calls>>

\* the iterator can yield the token t to a next()
CanTake(t) == IF look_ahead = None THEN ~exhausted ELSE look_ahead = t

\* Emitter.emit_tokens up to the first token of its _emit_block (line 530-536)
\* for a `storage` argument that is one of storages
emit_tokens_from(first, storages) ==
    /\ status = "start"
    /\ Bounded
    /\ \E t \in first, storage \in storages :
         LET e == [NoEv EXCEPT !.op = "emit_tokens"]
         IN  IF t = None THEN Raise("StopIteration", <<>>, e) /\ Peeked(None)
             ELSE IF t.kind # "LBRACE" THEN Raise("analysis_error", <<>>, e) /\ Stream(<<t>>)
             ELSE /\ Continue(<<Frame("block", "loop", storage, FALSE)>>,
                              None, <<>>, e, <<>>)
                  /\ UNCHANGED exhausted
                  /\ Stream(<<t>>)

\* for the storage of an instruction whose inputs a and b are on the stack
emit_tokens(first) == emit_tokens_from(first, {InitialStorage})

\* an emit_tokens that promotes the outputs whatever the block returned
finish_tokens_always(reachable, storage) ==
    [reachable |-> reachable, storage |-> push_outputs(storage), pushed |-> TRUE]

\* emit_tokens, lines 608-615, once its _emit_block has returned
finish_tokens(reachable, storage) ==
    [reachable |-> reachable,
     storage |-> IF reachable THEN push_outputs(storage) ELSE storage,
     pushed |-> reachable]

-----------------------------------------------------------------------------
(* _emit_block: one turn of the token loop *)

\* One turn for a token that a replacement function or the loop itself
\* handles without calling or returning: the escaping-call bookkeeping, then
\* the handler HH applied to the storage, then the update of `reachable`.
\* nargs is the number of further tokens the handler takes, db the change of
\* `braces`.
Turn(t, args, store, db, escs, rels, HH(_)) ==
    /\ status = "running"
    /\ Bounded
    /\ Top.fn = "block"
    /\ CanTake(t)
    /\ Stream(<<t>> \o args)
    /\ \E esc \in escs, rel \in rels :
         /\ rel => Top.reload
         /\ LET f == Top
                p == escaping_call(f.storage, f.reload, esc, rel)
                h == HH(p.storage)
                op == Stmt(t, args)
                e == Ev(op, esc, rel, store, p.storage.spilled, f)
            IN  IF p.err # ""
                THEN args = <<>> /\ Raise(p.err, p.out, e)
                ELSE /\ h.used = Len(args)
                     /\ Whole(h.err)
                     /\ IF h.err # ""
                        THEN Raise(h.err, p.out \o h.out, e)
                        ELSE /\ Continue(
                                  [stack EXCEPT ![Depth] =
                                      [f EXCEPT !.storage = h.storage,
                                                !.reload = p.reload,
                                                !.gap = next_gap(f, p, esc, rel),
                                                !.braces = @ + db,
                                                !.reachable = @ /\ h.reachable,
                                                !.seen = @ \cup {op}]],
                                  None, p.out \o h.out, e, <<>>)
                             /\ UNCHANGED exhausted

\* lines 559-561: '{'
Tok_LBRACE ==
    /\ status = "running" /\ Top.fn = "block" /\ Top.braces < MaxBraces
    /\ Turn(T_LBRACE, <<>>, FALSE, 1, NoEscapes, {FALSE}, LAMBDA st : H("", st, TRUE, <<"{">>, 0))

\* lines 562-567 with braces > 0 afterwards: '}' of an inner brace pair
Tok_RBRACE_inner ==
    /\ status = "running" /\ Top.fn = "block" /\ Top.braces > 1
    /\ Turn(T_RBRACE, <<>>, FALSE, -1, NoEscapes, {FALSE}, LAMBDA st : H("", st, TRUE, <<"}">>, 0))

\* lines 568-571: goto label
Tok_GOTO(argset) ==
    \E args \in argset :
        Turn(T_GOTO, args, FALSE, 0, NoEscapes, {FALSE}, LAMBDA st : goto_label(args, st))

\* lines 572-575: the replacement functions
Call_dispatch ==
    Turn(Ident("DISPATCH"), <<>>, FALSE, 0, NoEscapes, {FALSE},
         LAMBDA st : dispatch(Ident("DISPATCH"), st))

Call_deopt_if(names, argset) ==
    \E name \in names, args \in argset :
        Turn(Ident(name), args, FALSE, 0, NoEscapes, {FALSE}, LAMBDA st : deopt_if(args, st, inst))

Call_error_if(argset) ==
    \E args \in argset :
        Turn(Ident("ERROR_IF"), args, FALSE, 0, NoEscapes, {FALSE},
             LAMBDA st : error_if(args, st))

Call_error_no_pop(argset) ==
    \E args \in argset :
        Turn(Ident("ERROR_NO_POP"), args, FALSE, 0, NoEscapes, {FALSE},
             LAMBDA st : error_no_pop(args, st))

Call_decref_inputs(argset) ==
    \E args \in argset :
        Turn(Ident("DECREF_INPUTS"), args, FALSE, 0, NoEscapes, {FALSE},
             LAMBDA st : decref_inputs(args, st))

Call_kill_inputs(argset) ==
    \E args \in argset :
        Turn(Ident("INPUTS_DEAD"), args, FALSE, 0, NoEscapes, {FALSE},
             LAMBDA st : kill_inputs(args, st))

Call_kill(argset) ==
    \E args \in argset :
        Turn(Ident("DEAD"), args, FALSE, 0, NoEscapes, {FALSE}, LAMBDA st : kill(args, st))

Call_stackref_close_specialized(argset) ==
    \E args \in argset :
        Turn(Ident("PyStackRef_CLOSE_SPECIALIZED"), args, FALSE, 0, NoEscapes, {FALSE},
             LAMBDA st : stackref_close_specialized(
                             Ident("PyStackRef_CLOSE_SPECIALIZED"), args, st))

Call_stackref_steal(argset) ==
    \E args \in argset :
        Turn(Ident("PyStackRef_AsPyObjectSteal"), args, FALSE, 0, NoEscapes, {FALSE},
             LAMBDA st : stackref_steal(Ident("PyStackRef_AsPyObjectSteal"), args, st))

Call_sync_sp(argset) ==
    \E args \in argset :
        Turn(Ident("SYNC_SP"), args, FALSE, 0, NoEscapes, {FALSE},
             LAMBDA st : sync_sp(args, st))

Call_save_stack(argset) ==
    \E args \in argset :
        Turn(Ident("SAVE_STACK"), args, FALSE, 0, NoEscapes, {FALSE},
             LAMBDA st : save_stack(args, st))

Call_reload_stack(argset) ==
    \E args \in argset :
        Turn(Ident("RELOAD_STACK"), args, FALSE, 0, NoEscapes, {FALSE},
             LAMBDA st : reload_stack(args, st))

Call_instruction_size ==
    Turn(Ident("INSTRUCTION_SIZE"), <<>>, FALSE, 0, NoEscapes, {FALSE},
         LAMBDA st : instruction_size(Ident("INSTRUCTION_SIZE"), st, uop))

Call_stack_pointer(rels) ==
    Turn(Ident("stack_pointer"), <<>>, FALSE, 0, NoEscapes, rels,
         LAMBDA st : stack_pointer(Ident("stack_pointer"), st))

\* str.startswith
startswith(text, prefix) ==
    /\ Len(text) >= Len(prefix)
    /\ SubSeq(text, 1, Len(prefix)) = prefix

\* lines 576-586: an identifier that is not replaced.  store: the token is
\* one of uop.output_stores
plain_identifier(tkn, store, storage) ==
    LET hit == {i \in DOMAIN storage.outputs : storage.outputs[i].name = tkn.text}
        st == IF store /\ hit # {}
              THEN [storage EXCEPT !.outputs =
                       [i \in DOMAIN storage.outputs |->
                           IF i \in hit
                           THEN [storage.outputs[i] EXCEPT !.defined = TRUE,
                                                           !.in_memory = FALSE]
                           ELSE storage.outputs[i]]]
              ELSE storage
    IN  H("", st, ~startswith(tkn.text, "DISPATCH"), <<tkn.text>>, 0)

Tok_IDENTIFIER(names, escs, rels) ==
    \E name \in names \ ReplacerNames, store \in BOOLEAN :
        /\ store => name \in {OutputNames[i] : i \in DOMAIN OutputNames}
        /\ Turn(Ident(name), <<>>, store, 0, escs, rels,
                LAMBDA st : plain_identifier(Ident(name), store, st))

\* lines 576-586: an identifier that is one of uop.output_stores
Tok_output_store(names) ==
    \E name \in names :
        Turn(Ident(name), <<>>, TRUE, 0, NoEscapes, {FALSE},
             LAMBDA st : plain_identifier(Ident(name), TRUE, st))

\* lines 593-594: any other token is echoed
Tok_other(tokens, rels) ==
    \E t \in tokens :
        Turn(t, <<>>, FALSE, 0, NoEscapes, rels, LAMBDA st : H("", st, TRUE, <<t.text>>, 0))

\* line 597: the stream ends inside the block
Tok_end_of_stream ==
    /\ status = "running"
    /\ Bounded
    /\ Top.fn = "block"
    /\ look_ahead = None
    /\ Peeked(None)
    /\ Raise("analysis_error", <<>>,
             Ev("end", "none", FALSE, FALSE, Top.storage.spilled, Top))

-----------------------------------------------------------------------------
(* _emit_if *)

\* lines 467-473 and 530-539: from the token after `if` to the '{' that opens
\* the then-block
enter_if(args) ==
    LET n == Len(args)
        e == emit_to(args, 2, "RPAREN", 0)
        O(k, used) == [err |-> k, used |-> used, out |-> <<>>]
    IN  IF n = 0 THEN O("StopIteration", 0)
        ELSE IF args[1].kind # "LPAREN" THEN O("AssertionError", 1)
        ELSE IF e = 0 THEN O(IF n = 1 THEN "UnboundLocalError" ELSE "analysis_error", n)
        ELSE IF n < e + 1 THEN O("StopIteration", n)
        ELSE IF args[e + 1].kind # "LBRACE" THEN O("analysis_error", e + 1)
        ELSE [err |-> "", used |-> e + 1, out |-> Texts(SubSeq(args, 1, e + 1))]

\* line 472: the storage the then-block is emitted against
then_storage(storage) == copy(storage)

\* a then-block that works on the storage of _emit_if itself
storage_shared_with_then(storage, if_storage) == if_storage

\* lines 472-473: what the local `storage` of _emit_if holds once the
\* then-block has returned if_storage (the then-block worked on a copy)
storage_after_then(storage, if_storage) == storage

\* line 485 / 489: the storage the else-branch is emitted against
else_storage_in(storage, if_storage) == storage

\* the activations of a new _emit_if and of its then-block
if_frames(storage) ==
    <<Frame("if", "then", storage, TRUE),
      Frame("block", "loop", then_storage(storage), TRUE)>>

\* lines 587-589: `if` met by the token loop
Tok_IF(argset) ==
    /\ status = "running"
    /\ Bounded
    /\ Top.fn = "block"
    /\ CanTake(T_IF)
    /\ \E esc \in NoEscapes, rel \in BOOLEAN, args \in argset :
         /\ rel => Top.reload
         /\ Stream(<<T_IF>> \o args)
         /\ LET f == Top
                p == escaping_call(f.storage, f.reload, esc, rel)
                h == enter_if(args)
                e == Ev(Stmt(T_IF, args), esc, rel, FALSE, p.storage.spilled, f)
            IN  IF p.err # ""
                THEN args = <<>> /\ Raise(p.err, p.out, e)
                ELSE /\ h.used = Len(args)
                     /\ Whole(h.err)
                     /\ IF h.err # ""
                        THEN Raise(h.err, p.out \o <<"if">> \o h.out, e)
                        ELSE /\ Continue(
                                  [stack EXCEPT ![Depth] =
                                      [f EXCEPT !.storage = p.storage,
                                                !.reload = p.reload,
                                                !.gap = next_gap(f, p, esc, rel),
                                                !.seen = @ \cup {Stmt(T_IF, args)}]]
                                  \o if_frames(p.storage),
                                  None, p.out \o <<"if">> \o h.out, e, <<>>)
                             /\ UNCHANGED exhausted

\* lines 562-566 with braces = 0 afterwards: the block returns
\* (reachable, tkn, storage) to its caller
Tok_RBRACE_close ==
    /\ status = "running"
    /\ Bounded
    /\ Top.fn = "block"
    /\ Top.braces = 1
    /\ CanTake(T_RBRACE)
    /\ Stream(<<T_RBRACE>>)
    /\ \E esc \in NoEscapes, rel \in BOOLEAN :
         /\ rel => Top.reload
         /\ LET f == Top
                p == escaping_call(f.storage, f.reload, esc, rel)
                e == Ev("}", esc, rel, FALSE, p.storage.spilled, f)
                r == f.reachable
                st == p.storage
                below == Pop(stack)
                g == below[Len(below)]
                j == if_else_join(g.reachable, g.if_storage, r, st)
                ret == return_if(Pop(below), j.reachable, j.storage, p.out,
                                 <<IfRecord(g, TRUE, r, st, f.seen, j)>>)
            IN  IF p.err # "" THEN Raise(p.err, p.out, e)
                ELSE IF Depth = 1
                THEN \* back in emit_tokens
                     /\ status' = "done"
                     /\ result' = [ret |-> finish_tokens(r, st),
                                   block |-> [reachable |-> r, storage |-> st,
                                              seen |-> f.seen]]
                     /\ stack' = <<>>
                     /\ look_ahead' = None
                     /\ emitted' = p.out
                     /\ nesting' = Written(nesting, p.out)
                     /\ ev' = e
                     /\ ifDone' = <<>>
                     /\ steps' = steps + 1
                     /\ UNCHANGED <<err, exhausted, inst, uop, calls>>
                ELSE IF g.phase = "then"
                THEN \* back in _emit_if at line 474
                     /\ Continue(
                            [below EXCEPT ![Len(below)] =
                                [g EXCEPT !.phase = "peek_else",
                                          !.reachable = r,
                                          !.if_storage = st,
                                          !.storage = storage_after_then(@, st),
                                          !.seen = f.seen]],
                            None, p.out, e, <<>>)
                     /\ UNCHANGED exhausted
                ELSE \* back in _emit_if at line 490
                     IF j.err # "" THEN Raise(j.err, p.out, e)
                     ELSE IF ret.err # "" THEN Raise(ret.err, ret.out, e)
                     ELSE /\ Continue(ret.stack, None, ret.out, e, ret.log)
                          /\ UNCHANGED exhausted

\* lines 475-479 and 504-513: the token after the then-block is peeked
If_peek_else(tokens) ==
    /\ status = "running"
    /\ Bounded
    /\ Top.fn = "if"
    /\ Top.phase = "peek_else"
    /\ look_ahead = None
    /\ ~exhausted
    /\ \E t \in tokens \cup {T_ELSE} :
         /\ Peeked(t)
         /\ LET f == Top
                e == Ev("peek_else", "none", FALSE, FALSE, f.storage.spilled, f)
                j == if_only_join(f.reachable, f.if_storage, f.storage)
                ret == return_if(Pop(stack), j.reachable, j.storage, <<>>,
                                 <<IfRecord(f, FALSE, FALSE, f.storage, {}, j)>>)
            IN  IF t = T_ELSE
                THEN /\ Continue([stack EXCEPT ![Depth] = [f EXCEPT !.phase = "peek_if"]],
                                 None, <<"}", "else">>, e, <<>>)
                     /\ UNCHANGED exhausted
                ELSE IF j.err # "" THEN Raise(j.err, <<>>, e)
                ELSE /\ Continue(ret.stack, t, ret.out, e, ret.log)
                     /\ exhausted' = (t = None)

\* lines 480-489: the token after `else` is peeked
If_peek_if(tokens, argset) ==
    /\ status = "running"
    /\ Bounded
    /\ Top.fn = "if"
    /\ Top.phase = "peek_if"
    /\ \E t \in tokens :
         LET f == Top
             e == Ev("peek_if", "none", FALSE, FALSE, f.storage.spilled, f)
             start == else_storage_in(f.storage, f.if_storage)
         IN  IF t = None THEN Raise("StopIteration", <<>>, e) /\ Peeked(None)
             ELSE IF t = T_IF
             THEN \E args \in argset :
                       LET h == enter_if(args)
                       IN  /\ h.used = Len(args)
                           /\ Stream(<<T_IF>> \o args)
                           /\ Whole(h.err)
                           /\ IF h.err # ""
                              THEN Raise(h.err, <<" {", "if">> \o h.out, e)
                              ELSE /\ Continue(
                                        [stack EXCEPT ![Depth] = [f EXCEPT !.phase = "elif"]]
                                        \o if_frames(start),
                                        None, <<" {", "if">> \o h.out, e, <<>>)
                                   /\ UNCHANGED exhausted
             ELSE IF t.kind # "LBRACE" THEN Raise("analysis_error", <<>>, e) /\ Stream(<<t>>)
             ELSE /\ Continue(
                         [stack EXCEPT ![Depth] = [f EXCEPT !.phase = "else"]]
                         \o <<Frame("block", "loop", start, TRUE)>>,
                         None, <<"{">>, e, <<>>)
                  /\ UNCHANGED exhausted
                  /\ Stream(<<t>>)

-----------------------------------------------------------------------------

(* The whole emitter over the whole vocabulary *)

Next ==
    \/ emit_tokens(FirstTokens)
    \/ Tok_LBRACE
    \/ Tok_RBRACE_inner
    \/ Tok_RBRACE_close
    \/ Tok_GOTO(GotoArgs)
    \/ Call_dispatch
    \/ Call_deopt_if(DeoptNames, DeoptArgs)
    \/ Call_error_if(ErrorIfArgs)
    \/ Call_error_no_pop(Args3)
    \/ Call_decref_inputs(Args3)
    \/ Call_kill_inputs(Args3)
    \/ Call_kill(KillArgs)
    \/ Call_stackref_close_specialized(CloseArgs)
    \/ Call_stackref_steal(StealArgs)
    \/ Call_sync_sp(Args3)
    \/ Call_save_stack(Args3)
    \/ Call_reload_stack(Args3)
    \/ Call_instruction_size
    \/ Call_stack_pointer(BOOLEAN)
    \/ Tok_IDENTIFIER(PlainNames, Escapes, BOOLEAN)
    \/ Tok_other(OtherTokens, BOOLEAN)
    \/ Tok_end_of_stream
    \/ Tok_IF(IfArgs)
    \/ If_peek_else(BlockTokens \cup {None})
    \/ If_peek_if(AfterElseAny, IfArgs)

Spec == Init /\ [][Next]_vars

-----------------------------------------------------------------------------
(* Bodies of nested if / else / else-if statements whose branches kill an
   input, store the output, spill, and leave by ERROR_IF                    *)

\* a directive's well-formed argument list: ( ... ) ;
Full(inner) == <<T_LPAREN>> \o inner \o <<T_RPAREN, T_SEMI>>

BranchIf == {<<T_LPAREN, Ident("x"), T_RPAREN, T_LBRACE>>}
BranchErrorIf ==
    {Full(<<c, T_COMMA, Ident("error")>>) : c \in {Ident("true"), Ident("x")}}
BranchTokens ==
    {T_RBRACE, T_IF, Ident("ERROR_IF"), Ident("DEAD"), Ident("SAVE_STACK"),
     Ident("c")}

NextBranch ==
    \/ emit_tokens({T_LBRACE})
    \/ Tok_RBRACE_close
    \/ Call_error_if(BranchErrorIf)
    \/ Call_kill({Full(<<Ident("a")>>)})
    \/ Call_save_stack({Full(<<>>)})
    \/ Tok_IDENTIFIER({"c"}, NoEscapes, {FALSE})
    \/ Tok_IF(BranchIf)
    \/ If_peek_else(BranchTokens)
    \/ If_peek_if(AfterElse, BranchIf)

SpecBranch == InitOf({<<"Family", [instruction_size |-> 1]>>}) /\ [][NextBranch]_vars

-----------------------------------------------------------------------------
(* The joins of _emit_if *)

\* C1: an if statement with an else branch (a block or an else-if) returns
\* reachable exactly when one of its two branches closed reachable; when just
\* one branch closed reachable the storage returned is that branch's storage
\* and nothing is merged; when both closed reachable it is the merge of the
\* two branch storages; and the enclosing block goes on with that storage.
C1_IfElseJoin ==
    /\ \A i \in DOMAIN ifDone :
          LET d == ifDone[i]
          IN  d.has_else =>
                /\ d.reachable = (d.then_reachable \/ d.else_reachable)
                /\ (d.then_reachable /\ ~d.else_reachable)
                      => (d.storage = d.then_storage /\ d.merged = "")
                /\ (~d.then_reachable /\ d.else_reachable)
                      => (d.storage = d.else_storage /\ d.merged = "")
                /\ (d.then_reachable /\ d.else_reachable)
                      => /\ d.merged # ""
                         /\ d.storage \in {merge(d.else_storage, d.then_storage).storage,
                                           merge(d.then_storage, d.else_storage).storage}
    /\ (ifDone # <<>> /\ ifDone[Len(ifDone)].has_else /\ status = "running")
          => Top.storage = ifDone[Len(ifDone)].storage

\* an else-if chain has just returned: both branches of the outer if closed
\* reachable with different storages, the else branch being the inner if
C1_Witness ==
    /\ Len(ifDone) = 2
    /\ ~ifDone[1].has_else /\ ifDone[2].has_else
    /\ ifDone[2].then_reachable /\ ifDone[2].else_reachable
    /\ ifDone[2].then_storage # ifDone[2].else_storage
    /\ ifDone[2].else_storage = ifDone[1].storage
    /\ ifDone[2].merged # ""

\* C2: an if statement without an else always returns reachable; when its
\* then-branch closed unreachable the storage returned is the storage the if
\* was entered with, and nothing is merged; when the then-branch closed
\* reachable it is the merge of the then-storage with that entry storage.
C2_IfOnlyJoin ==
    \A i \in DOMAIN ifDone :
        LET d == ifDone[i]
        IN  ~d.has_else =>
              /\ d.reachable
              /\ ~d.then_reachable => (d.storage = d.pre /\ d.merged = "")
              /\ d.then_reachable
                    => /\ d.merged # ""
                       /\ d.storage = merge(d.then_storage, d.pre).storage

\* an if without else has returned whose then-branch closed unreachable
\* after it had changed its storage
C2_Witness ==
    \E i \in DOMAIN ifDone :
        /\ ~ifDone[i].has_else
        /\ ~ifDone[i].then_reachable
        /\ ifDone[i].then_storage # ifDone[i].pre

\* C3: the else-branch of an if statement, a block or an else-if, is
\* entered with the storage the if statement itself was entered with,
\* whatever the then-branch did to its own storage.
C3_ElseStartsFromEntry ==
    \A i \in 1..(Depth - 1) :
        (stack[i].fn = "if" /\ stack[i].phase \in {"else", "elif"})
            => stack[i + 1].pre = stack[i].pre

\* an else-block is being emitted after a then-branch that killed an input,
\* stored the output and spilled
C3_Witness ==
    \E i \in 1..(Depth - 1) :
        /\ stack[i].fn = "if" /\ stack[i].phase = "else"
        /\ stack[i + 1].fn = "block"
        /\ stack[i].if_storage.spilled /\ ~stack[i].pre.spilled
        /\ stack[i].if_storage.outputs # stack[i].pre.outputs
        /\ stack[i].if_storage.inputs # stack[i].pre.inputs

-----------------------------------------------------------------------------
(* Bodies of nested if / else / else-if statements whose branches spill,
   store the output, and leave by ERROR_IF on true, 1 or a variable         *)

ErrorIfConds == {Ident("true"), T_NUMBER1, Ident("x")}
ErrorIfTokens == {T_RBRACE, T_IF, Ident("ERROR_IF"), Ident("SAVE_STACK"), Ident("c")}

ErrorIfCalls == {Full(<<c, T_COMMA, Ident("error")>>) : c \in ErrorIfConds}

NextErrorIf ==
    \/ emit_tokens({T_LBRACE})
    \/ Tok_RBRACE_close
    \/ Call_error_if(ErrorIfCalls)
    \/ Call_save_stack({Full(<<>>)})
    \/ Tok_IDENTIFIER({"c"}, NoEscapes, {FALSE})
    \/ Tok_IF(BranchIf)
    \/ If_peek_else(ErrorIfTokens)
    \/ If_peek_if(AfterElse, BranchIf)

SpecErrorIf == InitOf({<<"Family", [instruction_size |-> 1]>>}) /\ [][NextErrorIf]_vars

\* the ERROR_IF statements whose condition is the literal true or 1
UnconditionalErrorIf ==
    {Stmt(Ident("ERROR_IF"), Full(<<c, T_COMMA, Ident(l)>>)) :
        c \in {Ident("true"), T_NUMBER1}, l \in LabelNames}

\* C5: a block that has processed an unconditional ERROR_IF is unreachable
\* from then on, whatever it processes next, and closes unreachable; when
\* it is a branch of an if statement, the join of that statement merges
\* nothing and returns the other branch's storage (the entry storage when
\* there is no else).
C5_UnconditionalErrorIf ==
    /\ \A i \in DOMAIN stack :
          (stack[i].fn = "block" /\ stack[i].seen \cap UnconditionalErrorIf # {})
              => ~stack[i].reachable
    /\ \A i \in DOMAIN ifDone :
          LET d == ifDone[i]
          IN  /\ d.then_seen \cap UnconditionalErrorIf # {}
                    => /\ ~d.then_reachable
                       /\ d.merged = ""
                       /\ d.storage = IF d.has_else THEN d.else_storage ELSE d.pre
              /\ d.else_seen \cap UnconditionalErrorIf # {}
                    => /\ ~d.else_reachable
                       /\ d.merged = ""
                       /\ d.then_reachable => d.storage = d.then_storage

\* an if/else has returned whose then-branch spilled after an unconditional
\* ERROR_IF and whose else-branch closed reachable
C5_Witness ==
    \E i \in DOMAIN ifDone :
        /\ ifDone[i].has_else
        /\ ifDone[i].then_seen \cap UnconditionalErrorIf # {}
        /\ ifDone[i].then_storage.spilled
        /\ ifDone[i].then_storage.offset = 0
        /\ ifDone[i].else_reachable
        /\ ifDone[i].storage = ifDone[i].else_storage

-----------------------------------------------------------------------------
(* Single-block bodies of DEOPT_IF and EXIT_IF statements, for an instruction
   of a family, one outside any family, and a bare uop                      *)

DeoptConds ==
    {<<Ident("true")>>, <<T_NUMBER1>>, <<Ident("x")>>, <<Ident("true"), T_AND, Ident("x")>>}

DeoptCalls == {Full(c) : c \in DeoptConds} \cup {<<>>}

NextDeopt ==
    \/ emit_tokens(FirstTokens)
    \/ Tok_RBRACE_close
    \/ Call_deopt_if(DeoptNames, DeoptCalls)
    \/ Tok_other({T_SEMI}, {FALSE})
    \/ Tok_end_of_stream

SpecDeopt == Init /\ [][NextDeopt]_vars

-----------------------------------------------------------------------------
(* Single-block bodies that store the output c, before or after a DEOPT_IF  *)

StoreDeopts == {Full(<<Ident("true")>>), Full(<<Ident("x")>>)}
StoreTokens == {T_EQUALS, T_NUMBER1, T_SEMI}

NextStore ==
    \/ emit_tokens({T_LBRACE})
    \/ Tok_RBRACE_close
    \/ Call_deopt_if({"DEOPT_IF"}, StoreDeopts)
    \/ Tok_IDENTIFIER({"c"}, NoEscapes, {FALSE})
    \/ Tok_other(StoreTokens, {FALSE})

SpecStore == InitOf({<<"Family", [instruction_size |-> 1]>>}) /\ [][NextStore]_vars

-----------------------------------------------------------------------------
(* DEOPT_IF, EXIT_IF and the promotion of the outputs *)

DeoptStmts ==
    {Stmt(Ident(n), Full(c)) : n \in {"DEOPT_IF", "EXIT_IF"}, c \in DeoptConds}
\* the statements whose condition is exactly the literal true or 1
LiteralTrueDeopts ==
    {Stmt(Ident(n), Full(<<c>>)) :
        n \in {"DEOPT_IF", "EXIT_IF"}, c \in {Ident("true"), T_NUMBER1}}

\* C4: a DEOPT_IF or EXIT_IF statement met in reachable code leaves the code
\* after it unreachable exactly when its condition is the single token true
\* or 1; after any other condition, a longer expression that begins with
\* true or 1 included, the code after it is still reachable.
C4_DeoptOnlyOnLiteralTrue ==
    (status = "running" /\ ev.op \in DeoptStmts /\ ev.reachable)
        => (Top.reachable <=> ev.op \notin LiteralTrueDeopts)

\* C6: emit_tokens returns the storage of its block with the outputs
\* promoted, once, when the block closed reachable, and returns it as the
\* block left it when the block closed unreachable, as it does for every
\* body that holds DEOPT_IF(true); and a store of the output is echoed and
\* tracked whether or not it is reachable.
C6_PromoteIffReachable ==
    /\ status = "done" =>
          /\ result.ret.pushed = result.block.reachable
          /\ result.ret.storage = IF result.block.reachable
                                  THEN push_outputs(result.block.storage)
                                  ELSE result.block.storage
          /\ Stmt(Ident("DEOPT_IF"), Full(<<Ident("true")>>)) \in result.block.seen
                => (~result.ret.pushed /\ result.ret.storage.outputs # <<>>)
    /\ (status = "running" /\ ev.store)
          => (emitted = <<ev.op>> /\ Top.storage.outputs[1].defined)

\* emit_tokens has returned from the body { DEOPT_IF(true); c = 1; }
C6_Witness ==
    /\ status = "done"
    /\ result.block.seen = {Stmt(Ident("DEOPT_IF"), Full(<<Ident("true")>>)),
                            "c", "=", "1", ";"}
    /\ result.block.storage.outputs[1].defined
    /\ ~result.ret.pushed
    /\ ~result.ret.storage.outputs[1].in_memory

-----------------------------------------------------------------------------
(* Single-block bodies of goto statements, SAVE_STACK, DISPATCH and
   identifiers that begin with DISPATCH                                     *)

GotoTargets == {<<Ident(l)>> : l \in LabelNames \cup {"missing"}}

GotoCalls == GotoTargets \cup {<<>>}
GotoNames == {"DISPATCH_GOTO", "x"}

NextGoto ==
    \/ emit_tokens({T_LBRACE})
    \/ Tok_RBRACE_close
    \/ Tok_GOTO(GotoCalls)
    \/ Call_save_stack({Full(<<>>)})
    \/ Call_dispatch
    \/ Tok_IDENTIFIER(GotoNames, NoEscapes, {FALSE})
    \/ Tok_other({T_SEMI}, {FALSE})
    \/ Tok_end_of_stream

SpecGoto == InitOf({<<"Family", [instruction_size |-> 1]>>}) /\ [][NextGoto]_vars

Goto(l) == Stmt(T_GOTO, <<Ident(l)>>)
Jump(l) == "JUMP_TO_LABEL(" \o l \o ")"

\* C7: a goto to a label that expects a spilled stack leaves the storage
\* spilled; it writes the save and then the jump when the storage was not
\* spilled, and the jump alone when it was; and a block that has processed a
\* goto is unreachable from then on.
C7_GotoSpilledLabel ==
    /\ \A l \in LabelNames :
          (status = "running" /\ ev.op = Goto(l) /\ labels[l])
              => /\ Top.storage.spilled
                 /\ emitted = IF ev.spilled THEN <<Jump(l)>> ELSE <<"SAVE", Jump(l)>>
    /\ (status = "running" /\ Top.fn = "block"
            /\ Top.seen \cap {Goto(l) : l \in LabelNames} # {})
          => ~Top.reachable

\* a token is processed, unreachable, after a goto that spilled the storage
C7_Witness ==
    /\ status = "running"
    /\ ev.op = ";"
    /\ Top.seen = {Goto("error"), ";"}
    /\ Top.storage.spilled
    /\ ~Top.reachable

\* C8: a goto met with the storage spilled, to a label that does not expect
\* a spilled stack, raises an analysis error and writes nothing; so does a
\* goto to a name that is not in the label table.
C8_GotoRejected ==
    /\ \A l \in LabelNames :
          (ev.op = Goto(l) /\ ~labels[l] /\ ev.spilled)
              => (status = "error" /\ err = "analysis_error" /\ emitted = <<>>)
    /\ ev.op = Goto("missing")
          => (status = "error" /\ err = "analysis_error" /\ emitted = <<>>)

\* a goto to a label that expects an unspilled stack was met after SAVE_STACK
C8_Witness ==
    /\ status = "error"
    /\ ev.op = Goto("pop_1_error")
    /\ ev.spilled

\* C9: a block that has processed DISPATCH, or an identifier that begins
\* with DISPATCH, is unreachable from then on, and either of them met with
\* the storage spilled raises an analysis error.
C9_DispatchPrefix ==
    /\ (status = "running" /\ Top.fn = "block"
            /\ Top.seen \cap {"DISPATCH", "DISPATCH_GOTO"} # {})
          => ~Top.reachable
    /\ (ev.op \in {"DISPATCH", "DISPATCH_GOTO"} /\ ev.spilled)
          => (status = "error" /\ err = "analysis_error")

-----------------------------------------------------------------------------
(* Single-block bodies whose identifiers start escaping calls, some of which
   kill an input, with SAVE_STACK and RELOAD_STACK directives among them    *)

NextEscape ==
    \/ emit_tokens({T_LBRACE})
    \/ Tok_RBRACE_close
    \/ Tok_IDENTIFIER({"x"}, Escapes, BOOLEAN)
    \/ Tok_other({T_SEMI}, BOOLEAN)
    \/ Call_save_stack({Full(<<>>)})
    \/ Call_reload_stack({Full(<<>>)})
    \/ Tok_end_of_stream

SpecEscape == InitOf({<<"Family", [instruction_size |-> 1]>>}) /\ [][NextEscape]_vars

Undefined(storage, name) ==
    \A i \in DOMAIN storage.inputs :
        storage.inputs[i].name = name => ~storage.inputs[i].defined

\* C10 as stated: at the token that starts an escaping call the storage is
\* spilled before the token is echoed, and the slot the call kills is
\* undefined; every token between the start and the end of the call is
\* processed with the storage spilled; and at the end token of the pending
\* call a reload is written first, also when that token starts the next call.
C10_AsStated ==
    /\ (status = "running" /\ ev.esc # "none")
          => /\ Top.storage.spilled
             /\ emitted[Len(emitted)] = ev.op
             /\ ev.esc \in {"kill_a", "kill_b"} => Undefined(Top.storage, Kills(ev.esc))
    /\ ev.rel => ~ev.gap
    /\ (status = "running" /\ ev.rel) => emitted[1] = "RELOAD"
    /\ (status = "running" /\ ev.rel /\ ev.esc = "none") => ~ev.spilled

\* C10, amended: the token that starts an escaping call is echoed with the
\* storage spilled, after a save written exactly when the storage was not
\* spilled already, and with the slot the call kills undefined; but when that
\* token is the end token of the pending call and the call it starts kills
\* nothing, nothing is written before it and the storage is left as it was.
\* A token between start and end is processed with the storage not spilled
\* only after a RELOAD_STACK directive.  At the end token of the pending call
\* a reload is written first and the storage is no longer spilled when the
\* token is plain, and a reload and then a save are written when the token
\* starts a call that kills a slot.
C10_EscapingCalls ==
    /\ (status = "running" /\ ev.esc # "none")
          => /\ Top.reload
             /\ emitted[Len(emitted)] = ev.op
             /\ ev.esc \in {"kill_a", "kill_b"} => Undefined(Top.storage, Kills(ev.esc))
             /\ IF ev.rel /\ ev.esc = "call"
                THEN emitted = <<ev.op>> /\ Top.storage.spilled = ev.before
                ELSE /\ Top.storage.spilled
                     /\ emitted = IF ev.rel THEN <<"RELOAD", "SAVE", ev.op>>
                                  ELSE IF ev.before THEN <<ev.op>>
                                  ELSE <<"SAVE", ev.op>>
    /\ (status = "running" /\ Top.fn = "block" /\ Top.gap)
          => Stmt(Ident("RELOAD_STACK"), Full(<<>>)) \in Top.seen
    /\ (status = "running" /\ ev.rel /\ ev.esc = "none")
          => /\ emitted = <<"RELOAD", ev.op>>
             /\ ~ev.spilled /\ ~Top.storage.spilled /\ ~Top.reload

\* the end token of an escaping call that killed b is reached after a token
\* between its start and its end
C10_Witness ==
    /\ status = "running"
    /\ steps >= 4
    /\ Top.seen = {"x", ";"}
    /\ ev.op = ";" /\ ev.rel /\ ev.esc = "none" /\ ev.pending /\ ev.before
    /\ emitted = <<"RELOAD", ";">>
    /\ Undefined(Top.storage, "b")
    /\ ~Top.storage.spilled

-----------------------------------------------------------------------------
(* Single-block bodies of DEAD and DECREF_INPUTS statements                  *)

KillCalls == {Full(<<Ident(n)>>) : n \in {"a", "b", "c"}}
NoArgs == {Full(<<>>)}

NextKill ==
    \/ emit_tokens({T_LBRACE})
    \/ Tok_RBRACE_close
    \/ Call_kill(KillCalls)
    \/ Call_decref_inputs(NoArgs)
    \/ Tok_IDENTIFIER({"c"}, NoEscapes, {FALSE})

SpecKill == InitOf({<<"Family", [instruction_size |-> 1]>>}) /\ [][NextKill]_vars

DeadOf(n) == Stmt(Ident("DEAD"), Full(<<Ident(n)>>))
LiveInput(storage, n) ==
    \E i \in DOMAIN storage.inputs :
        storage.inputs[i].name = n /\ storage.inputs[i].defined

\* C11: a DEAD(name) statement met when name is a defined input slot leaves
\* that slot undefined and writes nothing; met when name is not an input
\* slot, or is an input slot that is undefined already, it raises an
\* analysis error; and a DECREF_INPUTS after a DEAD(name) of the same block
\* writes no release of name.
C11_DeadOnlyLive ==
    [][\A n \in SlotNames :
         /\ (status = "running" /\ steps' = steps + 1 /\ ev'.op = DeadOf(n))
               => IF LiveInput(Top.storage, n)
                  THEN /\ status' = "running"
                       /\ ~LiveInput(stack'[Len(stack')].storage, n)
                       /\ emitted' = <<>>
                  ELSE status' = "error" /\ err' = "analysis_error"
         /\ (status = "running" /\ status' = "running" /\ DeadOf(n) \in Top.seen
                /\ ev'.op = Stmt(Ident("DECREF_INPUTS"), Full(<<>>)))
               => \A k \in DOMAIN emitted' : emitted'[k] # "CLOSE_" \o n]_vars

-----------------------------------------------------------------------------
(* Single-block bodies of PyStackRef_CLOSE_SPECIALIZED and
   PyStackRef_AsPyObjectSteal calls on the inputs a and b (b on top)         *)

CloseDeallocs == {"_PyFloat_ExactDealloc", "dealloc"}
CloseCalls ==
    {<<T_LPAREN, Ident(n), T_COMMA, Ident(d)>> : n \in {"a", "b"}, d \in CloseDeallocs}
    \cup {<<T_LPAREN, T_NUMBER1, T_COMMA, Ident("dealloc"), T_RPAREN>>}
StealCalls ==
    {<<T_LPAREN, Ident(n)>> : n \in {"a", "b"}} \cup {<<T_LPAREN, T_NUMBER1, T_RPAREN>>}

NextClose ==
    \/ emit_tokens({T_LBRACE})
    \/ Tok_RBRACE_close
    \/ Call_stackref_close_specialized(CloseCalls)
    \/ Call_stackref_steal(StealCalls)
    \/ Tok_other({T_RPAREN}, {FALSE})

SpecClose == InitOf({<<"Family", [instruction_size |-> 1]>>}) /\ [][NextClose]_vars

CloseOf(n, d) ==
    Stmt(Ident("PyStackRef_CLOSE_SPECIALIZED"), <<T_LPAREN, Ident(n), T_COMMA, Ident(d)>>)
StealOf(n) == Stmt(Ident("PyStackRef_AsPyObjectSteal"), <<T_LPAREN, Ident(n)>>)
\* an input beneath the slot named n (earlier in the inputs) is defined
LiveBeneath(storage, n) ==
    \E i, j \in DOMAIN storage.inputs :
        i < j /\ storage.inputs[j].name = n /\ storage.inputs[i].defined

\* C12: PyStackRef_CLOSE_SPECIALIZED(name, dealloc) raises an analysis error
\* exactly when dealloc is not one of the non-escaping deallocs and an input
\* beneath name is still defined, and otherwise leaves name undefined;
\* PyStackRef_AsPyObjectSteal(name) leaves name undefined; and a call whose
\* first argument is not an identifier leaves the storage as it was.
C12_CloseBeneath ==
    [][/\ \A n \in BothInputs :
            /\ \A d \in CloseDeallocs :
                 (status = "running" /\ steps' = steps + 1 /\ ev'.op = CloseOf(n, d))
                    => IF d \notin NON_ESCAPING_DEALLOCS /\ LiveBeneath(Top.storage, n)
                       THEN status' = "error" /\ err' = "analysis_error"
                       ELSE /\ status' = "running"
                            /\ ~LiveInput(stack'[Len(stack')].storage, n)
            /\ (status = "running" /\ steps' = steps + 1 /\ ev'.op = StealOf(n))
                  => /\ status' = "running"
                     /\ ~LiveInput(stack'[Len(stack')].storage, n)
       /\ (status = "running" /\ steps' = steps + 1
              /\ ev'.op \in {Stmt(Ident("PyStackRef_CLOSE_SPECIALIZED"),
                                  <<T_LPAREN, T_NUMBER1, T_COMMA, Ident("dealloc"), T_RPAREN>>),
                             Stmt(Ident("PyStackRef_AsPyObjectSteal"),
                                  <<T_LPAREN, T_NUMBER1, T_RPAREN>>)})
             => /\ status' = "running"
                /\ stack'[Len(stack')].storage = Top.storage]_vars

-----------------------------------------------------------------------------
(* Single-block bodies that read stack_pointer between SAVE_STACK, goto
   error and escaping calls; any token may be the end of the call before it  *)

CallEscapes == {"none", "call"}
ErrorGoto == {<<Ident("error")>>}

NextPointer ==
    \/ emit_tokens({T_LBRACE})
    \/ Tok_RBRACE_close
    \/ Call_stack_pointer(BOOLEAN)
    \/ Call_save_stack(NoArgs)
    \/ Tok_GOTO(ErrorGoto)
    \/ Tok_IDENTIFIER({"x"}, CallEscapes, BOOLEAN)
    \/ Tok_other({T_SEMI}, BOOLEAN)

SpecPointer == InitOf({<<"Family", [instruction_size |-> 1]>>}) /\ [][NextPointer]_vars

\* C13: a stack_pointer token met while the storage is spilled (and the token
\* is not the one that ends the spill of an escaping call) raises an
\* analysis error; met otherwise it is written as it is, the slots and the
\* offset of the storage stay as they were, the storage is not spilled and
\* `reachable` keeps its value.
C13_StackPointer ==
    [][(status = "running" /\ steps' = steps + 1 /\ ev'.op = "stack_pointer")
          => IF Top.storage.spilled /\ ~ev'.rel
             THEN status' = "error" /\ err' = "analysis_error"
             ELSE /\ status' = "running"
                  /\ emitted'[Len(emitted')] = "stack_pointer"
                  /\ stack'[Len(stack')].storage = [Top.storage EXCEPT !.spilled = FALSE]
                  /\ stack'[Len(stack')].reachable = Top.reachable]_vars

PointerSeen == {"x", ";", "stack_pointer"}

\* a stack_pointer is echoed after the spill of an escaping call has ended
C13_Witness ==
    /\ status = "running"
    /\ ev.op = "stack_pointer" /\ ~ev.rel /\ ~ev.before
    /\ Top.seen = PointerSeen
    /\ emitted = <<"stack_pointer">>
    /\ Top.reachable /\ ~Top.reload

\* C14: a step that begins in a block whose code is unreachable writes no
\* save and no reload (neither the implicit save of a goto nor the spill of
\* an escaping call), and an if statement that returns to such a block has
\* merged no branch storages.
C14_UnreachableNoSync ==
    (status = "running" /\ ev.op # "" /\ ~ev.reachable)
       => /\ \A k \in DOMAIN emitted : emitted[k] \notin {"SAVE", "RELOAD"}
          /\ \A k \in DOMAIN ifDone : ifDone[k].merged = ""

\* C15: whenever emit_tokens is left by an exception, the exception is an
\* analysis error.
C15_SingleErrorKind == status = "error" => err = "analysis_error"

-----------------------------------------------------------------------------
(* The bodies { if (a) { T } else { E } } whose branches T and E release the
   inputs with DECREF_INPUTS(), assign the output c, do both or do nothing  *)

Release == <<Ident("DECREF_INPUTS"), T_LPAREN, T_RPAREN, T_SEMI>>
Assign(n) == <<Ident("c"), T_EQUALS, n, T_SEMI>>
Branches(n) == {<<>>, Release, Assign(n), Release \o Assign(n), Assign(n) \o Release}
ScenarioBody(T, E) ==
    <<T_LBRACE, T_IF, T_LPAREN, Ident("a"), T_RPAREN, T_LBRACE>> \o T
    \o <<T_RBRACE, T_ELSE, T_LBRACE>> \o E \o <<T_RBRACE, T_RBRACE>>
ThenBranches == Branches(T_NUMBER1)
ElseBranches == Branches(T_NUMBER2)
ScenarioBodies == {ScenarioBody(T, E) : T \in ThenBranches, E \in ElseBranches}
ScenarioIf == {<<T_LPAREN, Ident("a"), T_RPAREN, T_LBRACE>>}
ScenarioTokens == {T_EQUALS, T_NUMBER1, T_NUMBER2, T_SEMI}

NextScenario ==
    \/ emit_tokens({T_LBRACE})
    \/ Tok_IF(ScenarioIf)
    \/ Call_decref_inputs(NoArgs)
    \/ Tok_output_store({"c"})
    \/ Tok_other(ScenarioTokens, {FALSE})
    \/ Tok_RBRACE_close
    \/ If_peek_else({T_RBRACE})
    \/ If_peek_if({T_LBRACE}, ScenarioIf)

SpecScenario == InitBody(ScenarioBodies) /\ [][NextScenario]_vars

\* the branch body B releases the inputs / assigns the output
Releases(B) == \E i \in DOMAIN B : B[i] = Ident("DECREF_INPUTS")
Assigns(B) == \E i \in DOMAIN B : B[i] = Ident("c")
Live(storage) ==
    {storage.inputs[i].name : i \in {k \in DOMAIN storage.inputs : storage.inputs[k].defined}}
ReleaseStmt == Stmt(Ident("DECREF_INPUTS"), Full(<<>>))

\* C16: for the body { if (a) { T } else { E } } in which T and E both assign
\* c (and either may release the inputs, as T does and E does not in
\* { if (a) { DECREF_INPUTS(); c = 1; } else { c = 2; } }) emission never
\* fails and never stops before it is done; the if returns reachable with
\* both branches reachable and merged; a and b are live after a branch
\* exactly when the branch has no DECREF_INPUTS, the release code is written
\* by the DECREF_INPUTS statement alone, c is defined after the merge, and
\* the live set after emit_tokens has promoted the outputs is exactly {c}.
C16_Scenario ==
    \A T \in ThenBranches, E \in ElseBranches :
        (uop.body = ScenarioBody(T, E) /\ Assigns(T) /\ Assigns(E)) =>
            /\ status # "error"
            /\ status \in {"start", "running"} => ENABLED NextScenario
            /\ (status = "running" /\ ifDone # <<>>)
                  => LET d == ifDone[1]
                     IN  /\ Len(ifDone) = 1
                         /\ d.has_else /\ d.then_reachable /\ d.else_reachable
                         /\ d.reachable /\ d.merged # ""
                         /\ Live(d.then_storage) = IF Releases(T) THEN {} ELSE BothInputs
                         /\ Live(d.else_storage) = IF Releases(E) THEN {} ELSE BothInputs
                         /\ Live(d.storage) = IF Releases(T) \/ Releases(E) THEN {}
                                              ELSE BothInputs
                         /\ ReleaseStmt \in d.then_seen <=> Releases(T)
                         /\ ReleaseStmt \in d.else_seen <=> Releases(E)
                         /\ d.storage.outputs[1].name = "c"
                         /\ d.storage.outputs[1].defined
                         /\ Top.storage = d.storage
            /\ status = "running"
                  => emitted = IF ev.op = ReleaseStmt THEN <<"CLOSE_b", "CLOSE_a">>
                               ELSE SelectSeq(emitted, LAMBDA x : x \notin {"CLOSE_a", "CLOSE_b"})
            /\ status = "done"
                  => /\ result.ret.reachable
                     /\ result.ret.pushed
                     /\ Live(result.ret.storage) = {"c"}
                     /\ result.ret.storage.outputs = <<>>

\* emit_tokens has returned for { if (a) { DECREF_INPUTS(); c = 1; } else { c = 2; } }
C16_Witness ==
    /\ status = "done"
    /\ uop.body = ScenarioBody(Release \o Assign(T_NUMBER1), Assign(T_NUMBER2))
    /\ steps = 16
    /\ result.ret.reachable
    /\ Live(result.ret.storage) = {"c"}

-----------------------------------------------------------------------------
(* The merge of two branch storages, in either order *)

\* what the code after a branch goes by: the slots' flags and the spilled flag
Flags(storage) ==
    [inputs  |-> [i \in DOMAIN storage.inputs |->
                     <<storage.inputs[i].name, storage.inputs[i].defined,
                       storage.inputs[i].in_memory>>],
     outputs |-> [i \in DOMAIN storage.outputs |->
                     <<storage.outputs[i].name, storage.outputs[i].defined,
                       storage.outputs[i].in_memory>>],
     spilled |-> storage.spilled]

Symmetric(A, B) ==
    /\ (merge(A, B).err = "") = (merge(B, A).err = "")
    /\ merge(A, B).err = "" => Flags(merge(A, B).storage) = Flags(merge(B, A).storage)

-----------------------------------------------------------------------------
(* A TokenIterator on its own: next() and peek() called in any order on the
   iterator of a short body                                                  *)

\* longest body handed to the TokenIterator
MaxBody == 3
\* most calls made on one TokenIterator
MaxCalls == 5

IterTokens == {T_IF, T_ELSE, T_SEMI}
RECURSIVE BodiesUpTo(_)
BodiesUpTo(n) ==
    IF n = 0 THEN {<<>>}
    ELSE BodiesUpTo(n - 1)
         \cup {Append(b, t) : b \in {x \in BodiesUpTo(n - 1) : Len(x) = n - 1}, t \in IterTokens}
IterBodies == BodiesUpTo(MaxBody)

\* one call on the iterator, r being what it returns and leaves
Called(op, r) ==
    /\ look_ahead' = r.look_ahead
    /\ iterator' = iter(r.iterator)
    /\ exhausted' = (exhausted \/ (look_ahead = None /\ iterator.tokens = <<>>))
    /\ calls' = Append(calls, [op |-> op, err |-> r.err, res |-> r.res])
    /\ UNCHANGED <<stack, status, err, result, emitted, ev, ifDone, inst, uop, steps,
                   nesting>>

Call_next ==
    /\ status = "start"
    /\ Len(calls) < MaxCalls
    /\ Called("next", TokenIterator_next(look_ahead, iterator.tokens))

Call_peek ==
    /\ status = "start"
    /\ Len(calls) < MaxCalls
    /\ Called("peek", TokenIterator_peek(look_ahead, iterator.tokens))

NextIterator == Call_next \/ Call_peek

SpecIterator == InitBody(IterBodies) /\ [][NextIterator]_vars

\* the tokens the next() calls of cs have returned
RECURSIVE Taken(_)
Taken(cs) ==
    IF cs = <<>> THEN <<>>
    ELSE (IF Head(cs).op = "next" /\ Head(cs).err = "" THEN <<Head(cs).res>> ELSE <<>>)
         \o Taken(Tail(cs))
Cached == IF look_ahead = None THEN <<>> ELSE <<look_ahead>>

\* C18: after any sequence of next() and peek() calls, the tokens next() has
\* returned, then the cached token if there is one, then the tokens left in
\* the underlying iterator are the body, in order; a peek() returns the
\* first token of the body that next() has not returned yet (None when there
\* is none), keeps it as the one cached token and returns nothing of the
\* body; a next() returns that same token, leaving nothing cached, and
\* raises StopIteration when there is none.
C18_TokenIterator ==
    (status = "start" /\ ~iterator.drawn) =>
        /\ Taken(calls) \o Cached \o iterator.tokens = uop.body
        /\ calls # <<>> =>
              LET c == calls[Len(calls)]
                  before == Taken(SubSeq(calls, 1, Len(calls) - 1))
                  upcoming == IF Len(before) < Len(uop.body)
                              THEN uop.body[Len(before) + 1] ELSE None
              IN  IF c.op = "peek"
                  THEN /\ c.err = "" /\ c.res = upcoming
                       /\ look_ahead = upcoming
                       /\ Taken(calls) = before
                  ELSE IF upcoming = None
                  THEN c.err = "StopIteration" /\ look_ahead = None /\ Taken(calls) = before
                  ELSE /\ c.err = "" /\ c.res = upcoming
                       /\ look_ahead = None
                       /\ Taken(calls) = Append(before, upcoming)

\* two peeks, then the two tokens of the body are taken, then next() fails
C18_Witness ==
    /\ status = "start"
    /\ Len(uop.body) = 2 /\ uop.body[1] # uop.body[2]
    /\ Len(calls) = 5
    /\ calls[1].op = "peek" /\ calls[2].op = "peek" /\ calls[2].res = uop.body[1]
    /\ calls[3].op = "next" /\ calls[3].res = uop.body[1]
    /\ calls[4].op = "next" /\ calls[4].res = uop.body[2]
    /\ calls[5].op = "next" /\ calls[5].err = "StopIteration"

-----------------------------------------------------------------------------
(* Bodies of nested if / else statements whose blocks are left by goto,
   DISPATCH, an identifier that begins with DISPATCH, and ERROR_IF           *)

ReachNames == {"DISPATCH_GOTO", "x"}
ReachTokens == {T_RBRACE, T_IF, T_GOTO, Ident("x")}

NextReach ==
    \/ emit_tokens({T_LBRACE})
    \/ Tok_RBRACE_close
    \/ Tok_GOTO(ErrorGoto)
    \/ Call_dispatch
    \/ Call_error_if(BranchErrorIf)
    \/ Tok_IDENTIFIER(ReachNames, NoEscapes, {FALSE})
    \/ Tok_IF(BranchIf)
    \/ If_peek_else(ReachTokens)
    \/ If_peek_if(AfterElse, BranchIf)

SpecReach == InitOf({<<"Family", [instruction_size |-> 1]>>}) /\ [][NextReach]_vars

\* C19: a block that is unreachable stays unreachable for as long as it is
\* being emitted, whatever its next token is and whatever an if statement
\* nested in it returns; and what it returns when it closes is unreachable:
\* to emit_tokens, to the if statement whose then-block it is, or to the if
\* statement whose else-block it is.
C19_StaysUnreachable ==
    [][/\ \A i \in DOMAIN stack :
            (stack[i].fn = "block" /\ ~stack[i].reachable /\ i \in DOMAIN stack')
               => (stack'[i].fn = "block" /\ ~stack'[i].reachable)
       /\ (/\ status = "running" /\ Top.fn = "block" /\ ~Top.reachable
           /\ ev'.op = "}" /\ status' # "error" /\ Len(stack') < Len(stack))
             => IF status' = "done" THEN ~result'.block.reachable /\ ~result'.ret.reachable
                ELSE IF stack'[Len(stack')].fn = "if"
                THEN ~stack'[Len(stack')].reachable
                ELSE ifDone' # <<>> /\ ~ifDone'[1].else_reachable]_vars

\* an if statement has returned reachable to a block that was unreachable
\* before it, and the block is unreachable still
C19_Witness ==
    /\ status = "running"
    /\ ifDone # <<>>
    /\ ifDone[Len(ifDone)].reachable
    /\ ifDone[Len(ifDone)].has_else
    /\ Top.fn = "block"
    /\ ~Top.reachable
    /\ Stmt(T_GOTO, <<Ident("error")>>) \in Top.seen

-----------------------------------------------------------------------------
(* Single-block bodies of ERROR_IF statements and stores of c, emitted for
   storages whose stack offset is zero, positive, or not an integer          *)

\* the `storage` arguments: the inputs a and b are on the stack, and the
\* symbolic top is 0..4 above them or depends on oparg
OffsetStorages ==
    {[InitialStorage EXCEPT !.offset = n, !.symbolic = y] : n \in 0..4, y \in BOOLEAN}
OffsetErrorIf == {Full(<<c, T_COMMA, Ident("error")>>) : c \in {Ident("true"), Ident("x")}}

NextOffset ==
    \/ emit_tokens_from({T_LBRACE}, OffsetStorages)
    \/ Tok_RBRACE_close
    \/ Call_error_if(OffsetErrorIf)
    \/ Tok_output_store({"c"})
    \/ Tok_other({T_SEMI}, {FALSE})

SpecOffset == InitOf({<<"Family", [instruction_size |-> 1]>>}) /\ [][NextOffset]_vars

OffsetConds == {"true", "x"}
ErrorIfOf(c) == Stmt(Ident("ERROR_IF"), Full(<<Ident(c), T_COMMA, Ident("error")>>))
Has(out, text) == \E k \in DOMAIN out : out[k] = text

\* C20: an ERROR_IF(cond, error), cond being true or not, met with the
\* storage s writes the jump to pop_N_error when the stack offset of s
\* without its inputs is the integer -N < 0, and no flush; otherwise it
\* writes the jump to error, after a flush exactly when that offset is
\* positive or is not an integer; and in every case the block goes on with s
\* without its inputs, flushed or not as it was, and is reachable still
\* exactly when it was and cond is not true.
C20_ErrorIfJump ==
    [][\A c \in OffsetConds :
          (status = "running" /\ steps' = steps + 1 /\ ev'.op = ErrorIfOf(c))
             => LET s == clear_inputs(Top.storage)
                    known == ~s.symbolic
                IN  /\ status' = "running"
                    /\ IF known /\ s.offset < 0
                       THEN /\ Has(emitted', "JUMP_TO_LABEL(pop_" \o ToString(0 - s.offset)
                                             \o "_error)")
                            /\ ~Has(emitted', "JUMP_TO_LABEL(error)")
                            /\ ~Has(emitted', "FLUSH")
                       ELSE /\ Has(emitted', "JUMP_TO_LABEL(error)")
                            /\ \A n \in 1..4 :
                                  ~Has(emitted', "JUMP_TO_LABEL(pop_" \o ToString(n) \o "_error)")
                            /\ Has(emitted', "FLUSH") <=> (~known \/ s.offset > 0)
                    /\ stack'[Len(stack')].storage = s
                    /\ stack'[Len(stack')].reachable = (Top.reachable /\ c # "true")]_vars

\* a conditional ERROR_IF met after a store of c, with the stack offset
\* positive, has written a flush and left c out of memory
C20_Witness ==
    /\ status = "running"
    /\ ev.op = ErrorIfOf("x")
    /\ Has(emitted, "FLUSH") /\ Has(emitted, "JUMP_TO_LABEL(error)")
    /\ Top.reachable
    /\ ~Top.storage.symbolic /\ Top.storage.offset > 0
    /\ Top.storage.outputs[1].defined /\ ~Top.storage.outputs[1].in_memory
    /\ Top.storage.inputs = <<>>

-----------------------------------------------------------------------------
(* Bodies of statements that are escaping calls, alone or in the branches of
   if statements.  uop.properties.escaping_calls is resolved metadata: a call
   is recorded at the first token of its statement and its end is the token
   that follows the statement's ';'.                                        *)

StatementTokens == {"x", ";"}
AlternateIf == {<<T_LPAREN, Ident("x"), T_RPAREN, T_LBRACE>>}
AlternateTokens == {T_RBRACE, T_IF, T_SEMI, Ident("x")}

\* the escaping_calls entry and the reload match of the token the step took
\* agree with the statement the token stands in
ResolvedCalls ==
    LET pending == status = "running" /\ Top.fn = "block" /\ Top.reload
    IN  /\ ev'.rel = (pending /\ ev.op = ";")
        /\ (pending /\ ev.op # ";") => (ev'.esc = "none" /\ ev'.op \in StatementTokens)
        /\ ev'.esc # "none" => ev.op # "x"

NextAlternate ==
    \/ emit_tokens({T_LBRACE})
    \/ Tok_RBRACE_close /\ ResolvedCalls
    \/ Tok_IDENTIFIER({"x"}, Escapes, BOOLEAN) /\ ResolvedCalls
    \/ Tok_other({T_SEMI}, BOOLEAN) /\ ResolvedCalls
    \/ Tok_IF(AlternateIf) /\ ResolvedCalls
    \/ If_peek_else(AlternateTokens)
    \/ If_peek_if(AfterElse, AlternateIf)
    \/ Tok_end_of_stream

SpecAlternate == InitOf({<<"Family", [instruction_size |-> 1]>>}) /\ [][NextAlternate]_vars

SaveReload == {"SAVE", "RELOAD"}
IsSaveReload(text) == text \in SaveReload
\* the saves and reloads among the texts a step has written
Marks(out) == SelectSeq(out, IsSaveReload)
\* ms alternates between saves and reloads and begins with `first`
Alternating(ms, first) ==
    \A i \in DOMAIN ms :
        ms[i] = IF i % 2 = 1 THEN first
                ELSE IF first = "SAVE" THEN "RELOAD" ELSE "SAVE"

-----------------------------------------------------------------------------
(* Bodies of nested brace pairs, if / else / else-if statements and
   DEOPT_IF, EXIT_IF and ERROR_IF directives                                *)

BraceIf == {<<T_LPAREN, Ident("x"), T_RPAREN, T_LBRACE>>}
BraceDeopts == {Full(<<Ident("x")>>)}
BraceErrorIf == {Full(<<Ident("x"), T_COMMA, Ident("error")>>)}
BraceTokens ==
    {T_LBRACE, T_RBRACE, T_IF, Ident("DEOPT_IF"), Ident("EXIT_IF"), Ident("ERROR_IF")}

NextBraces ==
    \/ emit_tokens({T_LBRACE})
    \/ Tok_LBRACE
    \/ Tok_RBRACE_inner
    \/ Tok_RBRACE_close
    \/ Call_deopt_if(DeoptNames, BraceDeopts)
    \/ Call_error_if(BraceErrorIf)
    \/ Tok_IF(BraceIf)
    \/ If_peek_else(BraceTokens)
    \/ If_peek_if(AfterElse, BraceIf)

SpecBraces == InitOf({<<"Family", [instruction_size |-> 1]>>}) /\ [][NextBraces]_vars

RECURSIVE Sum(_)
Sum(ns) == IF Len(ns) = 0 THEN 0 ELSE Head(ns) + Sum(Tail(ns))
\* the brace depth of the body at the token the emitter has come to
BodyDepth ==
    Sum([d \in 1..Depth |-> IF stack[d].fn = "block" THEN stack[d].braces ELSE 0])
\* the else-if statements the emitter is inside of
ElseIfs == {d \in 1..Depth : stack[d].fn = "if" /\ stack[d].phase = "elif"}
\* the then-blocks whose closing brace is read and not yet written
Closing == {d \in 1..Depth : stack[d].fn = "if" /\ stack[d].phase = "peek_else"}

====
